---- MODULE Spec2Model ----
(***************************************************************************)
(* A model of the neural-network layers of Waffles (GClasses/GLayer.cpp,   *)
(* GLayer.h) and of the network that stacks them (GNeuralNet.h).           *)
(*                                                                         *)
(* A layer is a record whose fields are the members of the C++ class; a    *)
(* GVec is a function over 0..n-1, a GMatrix is a record of its row count, *)
(* its column count and its rows.  Doubles are modelled by integers (all   *)
(* operations used are +, * and comparison, which are exact on the small   *)
(* values drawn here).  size_t arithmetic is modular (SIZE_MOD).           *)
(***************************************************************************)
EXTENDS Integers, Sequences, FiniteSets, TLC

VARIABLES layer, deltas, buffer, node, net, last

vars == <<layer, deltas, buffer, node, net, last>>

\* ------------------------------------------------------------------ bounds

\* Largest input/output count of a dense layer drawn by the model.
MaxSize == 2

\* Largest value an uninitialised size_t or double may hold in the model.
MaxGarbage == 2

\* Values an uninitialised member or freshly allocated element may hold.
GarbageVals == 0..MaxGarbage

\* ---------------------------------------------------------------- size_t

\* size_t is unsigned and wraps; the model keeps the wrap-around with a
\* narrower word so that products stay within TLC's integers.
SIZE_MOD == 2^8

SizeT(x) == x % SIZE_MOD

FLEXIBLE_SIZE == 0

\* ------------------------------------------------------------ GVec, GMatrix

\* GVec(n): n elements, freshly allocated (content x).
Vec(n, x) == [i \in 0..(n - 1) |-> x]

Size(v) == Cardinality(DOMAIN v)

\* GVec::fill
VecFill(v, x) == [i \in DOMAIN v |-> x]

\* GVec::resize(n): reallocates, the content is not kept.
VecResize(v, n, g) == Vec(n, g)

\* GVec::put(pos, that): copies that into this, starting at pos; elements
\* that fall outside this vector are outside its allocation and are dropped
\* here (PutOverrun tells that this happened).
VecPut(v, pos, that) ==
  [i \in DOMAIN v |->
     IF i >= pos /\ (i - pos) \in DOMAIN that THEN that[i - pos] ELSE v[i]]

PutOverrun(v, pos, that) == pos + Size(that) > Size(v)

\* GMatrix(): no rows, no columns.
GMatrix0 == [rows |-> 0, cols |-> 0, d |-> Vec(0, Vec(0, 0))]

\* GMatrix(rows, cols) and GMatrix::resize(rows, cols): every row is newly
\* allocated, nothing of the previous content is kept.
GMatrix(r, c, g) == [rows |-> r, cols |-> c, d |-> Vec(r, Vec(c, g))]

MatResize(m, r, c, g) == GMatrix(r, c, g)

MatFill(m, x) == [m EXCEPT !.d = [i \in DOMAIN m.d |-> VecFill(m.d[i], x)]]

\* GMatrix::operator[](row) on a matrix that has the row.
HasRow(m, r) == r < m.rows

Row(m, r) == m.d[r]

\* ----------------------------------------------------------- call results

Ok(l) == [ok |-> TRUE, l |-> l]

Throw(l) == [ok |-> FALSE, l |-> l]

NoLayer == [kind |-> "none"]

\* ------------------------------------------------------------- GLayerLinear

\* The members of a GLayerLinear before the constructor body runs.
LinearFresh == [kind |-> "linear", m_weights |-> GMatrix0, m_activation |-> GMatrix0]

\* inputs() is m_weights.rows() - 1 in size_t.
GLayerLinear_inputs(l) == SizeT(l.m_weights.rows - 1)

GLayerLinear_outputs(l) == l.m_weights.cols

\* A resize that returns early when either size is unchanged.
GLayerLinear_resize_eitherSame(l, in, out, g) ==
  IF in = GLayerLinear_inputs(l) \/ out = GLayerLinear_outputs(l)
  THEN Ok(l)
  ELSE Ok([l EXCEPT !.m_weights = MatResize(@, in + 1, out, g),
                    !.m_activation = MatResize(@, 2, out, g)])

GLayerLinear_resize(l, in, out, g) ==
  IF in = GLayerLinear_inputs(l) /\ out = GLayerLinear_outputs(l)
  THEN Ok(l)
  ELSE Ok([l EXCEPT !.m_weights = MatResize(@, in + 1, out, g),
                    !.m_activation = MatResize(@, 2, out, g)])

\* GLayerLinear(size_t out) and GLayerLinear(size_t in, size_t out)
GLayerLinear(in, out, g) == GLayerLinear_resize(LinearFresh, in, out, g)

\* --------------------------------------------------------- GLayerActivation

\* GLayerActivation(): m_activation(2, 0).  The element-wise function of the
\* model is the one of GLayerRectifier.
GLayerActivation == Ok([kind |-> "activation", m_activation |-> GMatrix(2, 0, 0)])

GLayerActivation_inputs(l) == l.m_activation.cols

GLayerActivation_outputs(l) == l.m_activation.cols

\* A resize that takes any pair of sizes.
GLayerActivation_resize_unchecked(l, in, out, g) ==
  Ok([l EXCEPT !.m_activation = MatResize(@, 2, out, g)])

GLayerActivation_resize(l, in, out, g) ==
  IF in # out
  THEN Throw(l)
  ELSE Ok([l EXCEPT !.m_activation = MatResize(@, 2, out, g)])

\* ------------------------------- GLayerProductPooling, GLayerAdditionPooling

PoolingFresh(kind) == [kind |-> kind, m_activation |-> GMatrix0]

GLayerPooling_inputs(l) == SizeT(l.m_activation.cols * 2)

GLayerPooling_outputs(l) == l.m_activation.cols

\* A resize that takes the output count and does not look at the input count.
GLayerPooling_resize_anyInputs(l, inputCount, outputCount, g) ==
  IF outputCount = l.m_activation.cols
  THEN Ok(l)
  ELSE Ok([l EXCEPT !.m_activation = MatResize(@, 2, outputCount, g)])

\* GLayerProductPooling::resize and GLayerAdditionPooling::resize (same text)
GLayerPooling_resize(l, inputCount, outputCount, g) ==
  IF SizeT(outputCount * 2) # inputCount
  THEN Throw(l)
  ELSE IF outputCount = GLayerPooling_outputs(l)
       THEN Ok(l)
       ELSE Ok([l EXCEPT !.m_activation = MatResize(@, 2, outputCount, g)])

\* GLayerProductPooling(size_t inps), GLayerAdditionPooling(size_t inps)
GLayerPooling(kind, inps, g) ==
  IF inps % 2 = 1
  THEN Throw(NoLayer)
  ELSE GLayerPooling_resize(PoolingFresh(kind), inps, inps \div 2, g)

\* ------------------------------------------------------------- GLayerMaxOut

MaxOutFresh ==
  [kind |-> "maxout", m_weights |-> GMatrix0, m_bias |-> GMatrix0,
   m_activation |-> GMatrix0, m_winners |-> Vec(0, 0)]

GLayerMaxOut_inputs(l) == l.m_weights.rows

GLayerMaxOut_outputs(l) == l.m_weights.cols

GLayerMaxOut_resize(l, inputCount, outputCount, g) ==
  IF inputCount = GLayerMaxOut_inputs(l) /\ outputCount = GLayerMaxOut_outputs(l)
  THEN Ok(l)
  ELSE Ok([l EXCEPT !.m_weights = MatResize(@, inputCount, outputCount, g),
                    !.m_activation = MatResize(@, 2, outputCount, g),
                    !.m_winners = VecResize(@, outputCount, g),
                    !.m_bias = MatResize(@, 2, inputCount, g)])

GLayerMaxOut(inps, outs, g) == GLayerMaxOut_resize(MaxOutFresh, inps, outs, g)

\* ----------------------------------------- GLayerRestrictedBoltzmannMachine

RBMFresh ==
  [kind |-> "rbm", m_weights |-> GMatrix0, m_bias |-> GMatrix0,
   m_biasReverse |-> GMatrix0]

GLayerRBM_inputs(l) == l.m_weights.cols

GLayerRBM_outputs(l) == l.m_weights.rows

GLayerRBM_resize(l, inputCount, outputCount, g) ==
  IF inputCount = GLayerRBM_inputs(l) /\ outputCount = GLayerRBM_outputs(l)
  THEN Ok(l)
  ELSE Ok([l EXCEPT !.m_weights = MatResize(@, outputCount, inputCount, g),
                    !.m_bias = MatResize(@, 3, outputCount, g),
                    !.m_biasReverse = MatResize(@, 3, inputCount, g)])

GLayerRBM(inputSize, outputSize, g) == GLayerRBM_resize(RBMFresh, inputSize, outputSize, g)

\* ---------------------------------------------------- GLayerConvolutional1D

GLayerConvolutional1D_inputs(l) == SizeT(l.m_inputSamples * l.m_inputChannels)

GLayerConvolutional1D_outputs(l) ==
  SizeT(SizeT(l.m_outputSamples * l.m_inputChannels) * l.m_kernelsPerChannel)

\* The member initialisers run first (m_outputSamples wraps when the kernel is
\* wider than the input), then the body throws for kernelSize > inputSamples.
GLayerConvolutional1D(inputSamples, inputChannels, kernelSize, kernelsPerChannel, g) ==
  LET osam == SizeT(inputSamples - kernelSize + 1)
      kcount == SizeT(inputChannels * kernelsPerChannel)
  IN IF kernelSize > inputSamples
     THEN Throw(NoLayer)
     ELSE Ok([kind |-> "conv1d",
              m_inputSamples |-> inputSamples,
              m_inputChannels |-> inputChannels,
              m_outputSamples |-> osam,
              m_kernelsPerChannel |-> kernelsPerChannel,
              m_kernels |-> GMatrix(kcount, kernelSize, g),
              m_activation |-> GMatrix(2, SizeT(kcount * osam), g),
              m_bias |-> Vec(kcount, g)])

GLayerConvolutional1D_resize(l, inputSize, outputSize, g) ==
  IF inputSize # SizeT(l.m_inputSamples * l.m_inputChannels)
  THEN Throw(l)
  ELSE IF outputSize # SizeT(SizeT(l.m_inputChannels * l.m_kernelsPerChannel) * l.m_outputSamples)
       THEN Throw(l)
       ELSE Ok(l)

\* ------------------------------------------------------------ GMaxPooling2D

GMaxPooling2D_inputs(l) == SizeT(SizeT(l.m_inputRows * l.m_inputCols) * l.m_inputChannels)

\* outputs() divides by m_regionSize * m_regionSize.
GMaxPooling2D_outputs(l) ==
  SizeT(SizeT(l.m_inputRows * l.m_inputCols) * l.m_inputChannels)
    \div SizeT(l.m_regionSize * l.m_regionSize)

\* The constructor tests its parameter regionSize but has no initialiser for
\* the member m_regionSize, which it reads to size the buffers: the member
\* holds whatever the allocation held (r).  A zero divisor ends the program.
GMaxPooling2D(inputCols, inputRows, inputChannels, regionSize, r, g) ==
  LET l0 == [kind |-> "maxpooling", m_inputCols |-> inputCols, m_inputRows |-> inputRows,
             m_inputChannels |-> inputChannels, m_regionSize |-> r,
             m_activation |-> GMatrix0]
  IN IF inputCols % regionSize # 0 \/ inputRows % regionSize # 0
     THEN Throw(NoLayer)
     ELSE IF SizeT(r * r) = 0
          THEN Throw(NoLayer)
          ELSE Ok([l0 EXCEPT !.m_activation = MatResize(@, 2, GMaxPooling2D_outputs(l0), g)])

GMaxPooling2D_resize(l, inputSize, outputSize, g) ==
  IF inputSize # SizeT(SizeT(l.m_inputCols * l.m_inputRows) * l.m_inputChannels)
  THEN Throw(l)
  ELSE IF outputSize # SizeT(SizeT(l.m_inputChannels * l.m_inputCols) * l.m_inputRows)
                         \div SizeT(l.m_regionSize * l.m_regionSize)
       THEN Throw(l)
       ELSE Ok(l)

\* ---------------------------------------------------- GLayerConvolutional2D

\* GLayerConvolutional2D::Image: a view on a buffer (the buffer is named at
\* each use).
Image(width, height, channels) ==
  [width |-> width, height |-> height, channels |-> channels, interlaced |-> TRUE,
   dx |-> 0, dy |-> 0, dz |-> 0, px |-> 0, py |-> 0, sx |-> 1, sy |-> 1,
   invertStride |-> FALSE, flip |-> FALSE]

GLayerConvolutional2D_inputs(l) == SizeT(SizeT(l.m_width * l.m_height) * l.m_channels)

GLayerConvolutional2D_outputs(l) ==
  SizeT(SizeT(l.m_outputWidth * l.m_outputHeight) * Size(l.m_bias))

outputChannels(l) == Size(l.m_bias)

kernelCount(l) == l.m_kernels.rows

\* GLayerConvolutional2D(width, height, channels, kWidth, kHeight, kCount)
GLayerConvolutional2D(width, height, channels, kWidth, kHeight, kCount, g) ==
  LET ow == SizeT(width - kWidth + 1)
      oh == SizeT(height - kHeight + 1)
  IN Ok([kind |-> "conv2d",
         m_width |-> width, m_height |-> height, m_channels |-> channels,
         m_kWidth |-> kWidth, m_kHeight |-> kHeight,
         m_outputWidth |-> ow, m_outputHeight |-> oh,
         m_bias |-> Vec(kCount, g),
         m_kernels |-> GMatrix(kCount, SizeT(SizeT(kWidth * kHeight) * channels), g),
         m_activation |-> GMatrix(2, SizeT(SizeT(ow * oh) * kCount), g),
         m_kernelImage |-> Image(kWidth, kHeight, channels),
         m_deltaImage |-> Image(kWidth, kHeight, channels),
         m_inputImage |-> Image(width, height, channels),
         m_upStreamErrorImage |-> Image(width, height, channels),
         m_actImage |-> Image(ow, oh, kCount),
         m_errImage |-> Image(ow, oh, kCount)])

\* GLayerConvolutional2D(kWidth, kHeight, kCount): the input geometry is
\* FLEXIBLE_SIZE until an upstream convolutional layer gives it.
GLayerConvolutional2D_flexible(kWidth, kHeight, kCount, g) ==
  Ok([kind |-> "conv2d",
      m_width |-> FLEXIBLE_SIZE, m_height |-> FLEXIBLE_SIZE, m_channels |-> FLEXIBLE_SIZE,
      m_kWidth |-> kWidth, m_kHeight |-> kHeight,
      m_outputWidth |-> 0, m_outputHeight |-> 0,
      m_bias |-> Vec(kCount, g),
      m_kernels |-> GMatrix(kCount, 0, g),
      m_activation |-> GMatrix(2, 0, g),
      m_kernelImage |-> Image(kWidth, kHeight, 0),
      m_deltaImage |-> Image(kWidth, kHeight, 0),
      m_inputImage |-> Image(0, 0, 0),
      m_upStreamErrorImage |-> Image(0, 0, 0),
      m_actImage |-> Image(0, 0, 0),
      m_errImage |-> Image(0, 0, 0)])

\* The output geometry from the input geometry, stride and padding; the
\* activation and error rows are reallocated for m_kernels.rows() channels.
updateOutputSize(l, g) ==
  LET ow == SizeT(SizeT(l.m_width - l.m_kWidth + 2 * l.m_inputImage.px) \div l.m_inputImage.sx + 1)
      oh == SizeT(SizeT(l.m_height - l.m_kHeight + 2 * l.m_inputImage.py) \div l.m_inputImage.sy + 1)
  IN [l EXCEPT !.m_outputWidth = ow,
               !.m_outputHeight = oh,
               !.m_activation = MatResize(@, 2, SizeT(SizeT(ow * oh) * l.m_kernels.rows), g),
               !.m_actImage.width = ow, !.m_actImage.height = oh,
               !.m_errImage.width = ow, !.m_errImage.height = oh]

\* A resize that refuses only when both sizes differ from the layer's own.
GLayerConvolutional2D_resize_bothDiffer(l, inputSize, outputSize, g) ==
  IF inputSize # GLayerConvolutional2D_inputs(l) /\ outputSize # GLayerConvolutional2D_outputs(l)
  THEN Throw(l)
  ELSE Ok(l)

GLayerConvolutional2D_resize(l, inputSize, outputSize, g) ==
  IF inputSize # GLayerConvolutional2D_inputs(l) \/ outputSize # GLayerConvolutional2D_outputs(l)
  THEN Throw(l)
  ELSE Ok(l)

GLayerConvolutional2D_resizeInputs(l, upstream, g) ==
  IF upstream.kind # "conv2d"
  THEN Throw(l)
  ELSE LET w == upstream.m_outputWidth
           h == upstream.m_outputHeight
           c == outputChannels(upstream)
           l1 == [l EXCEPT
                    !.m_width = w, !.m_height = h, !.m_channels = c,
                    !.m_kernels = MatFill(MatResize(@, l.m_kernels.rows,
                                     SizeT(SizeT(l.m_kWidth * l.m_kHeight) * c), g), 0),
                    !.m_bias = VecFill(@, 0),
                    !.m_inputImage.width = w, !.m_inputImage.height = h,
                    !.m_inputImage.channels = c,
                    !.m_upStreamErrorImage.width = w, !.m_upStreamErrorImage.height = h,
                    !.m_upStreamErrorImage.channels = c,
                    !.m_kernelImage.channels = c,
                    !.m_deltaImage.channels = c]
       IN Ok(updateOutputSize(l1, g))

\* addKernel grows m_kernels by one row, then sizes m_bias from the row count
\* it has just grown.
addKernel(l, g) ==
  LET k1 == MatResize(l.m_kernels, l.m_kernels.rows + 1, l.m_kernels.cols, g)
      temp == l.m_bias
      b1 == VecPut(VecResize(l.m_bias, k1.rows + 1, g), 0, temp)
      l1 == [l EXCEPT !.m_kernels = k1, !.m_bias = b1,
                      !.m_actImage.channels = k1.rows,
                      !.m_errImage.channels = k1.rows]
  IN updateOutputSize(l1, g)

\* ------------------------------------------------- GNeuralNetLayer interface

Inputs(l) ==
  CASE l.kind = "linear" -> GLayerLinear_inputs(l)
    [] l.kind = "activation" -> GLayerActivation_inputs(l)
    [] l.kind \in {"productpooling", "additionpooling"} -> GLayerPooling_inputs(l)
    [] l.kind = "maxout" -> GLayerMaxOut_inputs(l)
    [] l.kind = "rbm" -> GLayerRBM_inputs(l)
    [] l.kind = "conv1d" -> GLayerConvolutional1D_inputs(l)
    [] l.kind = "conv2d" -> GLayerConvolutional2D_inputs(l)
    [] l.kind = "maxpooling" -> GMaxPooling2D_inputs(l)

Outputs(l) ==
  CASE l.kind = "linear" -> GLayerLinear_outputs(l)
    [] l.kind = "activation" -> GLayerActivation_outputs(l)
    [] l.kind \in {"productpooling", "additionpooling"} -> GLayerPooling_outputs(l)
    [] l.kind = "maxout" -> GLayerMaxOut_outputs(l)
    [] l.kind = "rbm" -> GLayerRBM_outputs(l)
    [] l.kind = "conv1d" -> GLayerConvolutional1D_outputs(l)
    [] l.kind = "conv2d" -> GLayerConvolutional2D_outputs(l)
    [] l.kind = "maxpooling" -> GMaxPooling2D_outputs(l)

\* virtual void resize(size_t inputs, size_t outputs)
Resize(l, in, out, g) ==
  CASE l.kind = "linear" -> GLayerLinear_resize(l, in, out, g)
    [] l.kind = "activation" -> GLayerActivation_resize(l, in, out, g)
    [] l.kind \in {"productpooling", "additionpooling"} -> GLayerPooling_resize(l, in, out, g)
    [] l.kind = "maxout" -> GLayerMaxOut_resize(l, in, out, g)
    [] l.kind = "rbm" -> GLayerRBM_resize(l, in, out, g)
    [] l.kind = "conv1d" -> GLayerConvolutional1D_resize(l, in, out, g)
    [] l.kind = "conv2d" -> GLayerConvolutional2D_resize(l, in, out, g)
    [] l.kind = "maxpooling" -> GMaxPooling2D_resize(l, in, out, g)

\* A resizeInputs that passes its sizes the wrong way round.
resizeInputs_swapped(l, upstream, g) == Resize(l, Outputs(l), Outputs(upstream), g)

\* GNeuralNetLayer::resizeInputs: resize(upstream.outputs(), outputs())
GNeuralNetLayer_resizeInputs(l, upstream, g) == Resize(l, Outputs(upstream), Outputs(l), g)

\* GLayerActivation::resizeInputs: the outputs follow the inputs.
GLayerActivation_resizeInputs(l, upstream, g) ==
  Resize(l, Outputs(upstream), Outputs(upstream), g)

\* GLayerProductPooling::resizeInputs, GLayerAdditionPooling::resizeInputs
GLayerPooling_resizeInputs(l, upstream, g) ==
  Resize(l, Outputs(upstream), Outputs(upstream) \div 2, g)

\* virtual void resizeInputs(GNeuralNetLayer* pUpStreamLayer)
ResizeInputs(l, upstream, g) ==
  CASE l.kind = "activation" -> GLayerActivation_resizeInputs(l, upstream, g)
    [] l.kind \in {"productpooling", "additionpooling"} -> GLayerPooling_resizeInputs(l, upstream, g)
    [] l.kind = "conv2d" -> GLayerConvolutional2D_resizeInputs(l, upstream, g)
    [] OTHER -> GNeuralNetLayer_resizeInputs(l, upstream, g)

\* The matrix that holds activation() and error(), and their rows in it.
ActMatrix(l) == IF l.kind = "rbm" THEN l.m_bias ELSE l.m_activation

ActRow(l) == IF l.kind = "rbm" THEN 1 ELSE 0

ErrRow(l) == IF l.kind = "rbm" THEN 2 ELSE 1

\* activation().size() and error().size().  Taking a row the matrix does not
\* have returns a reference to no GVec: the size read through it is whatever
\* lies there (u).
ActivationSize(l, u) == IF HasRow(ActMatrix(l), ActRow(l)) THEN ActMatrix(l).cols ELSE u

ErrorSize(l, u) == IF HasRow(ActMatrix(l), ErrRow(l)) THEN ActMatrix(l).cols ELSE u

\* ===================================================== layer shapes (SpecShape)
\* One layer is constructed, resized, attached to upstream layers and (for a
\* Convolutional2D) given kernels; after every call the caller reads
\* activation().size() and error().size().

\* Most kernels addKernel may add to one layer.
MaxKernels == 2

Sizes == 0..MaxSize

Dims == 1..MaxSize

Unused == [op |-> "unused"]

\* What the caller sees after a call: the call, whether it returned, and the
\* sizes of the two buffers read after it (u: what a size read through a row
\* that does not exist finds; resize calls draw it with the fill of new cells).
ShapeObs(op, r, u) ==
  [op |-> op, ok |-> r.ok,
   actSize |-> IF r.ok THEN ActivationSize(r.l, u) ELSE 0,
   errSize |-> IF r.ok THEN ErrorSize(r.l, u) ELSE 0]

\* The layers a layer under test is attached to.
Upstreams ==
  {GLayerLinear(FLEXIBLE_SIZE, o, 0).l : o \in 0..(2 * MaxSize)}
    \cup {GLayerConvolutional2D(w, w, 1, 1, 1, k, 0).l : w \in Dims, k \in 1..2}
    \cup {addKernel(GLayerConvolutional2D(w, w, 1, 1, 1, 0, 0).l, 0) : w \in Dims}

NoCall == [op |-> "none", ok |-> TRUE, actSize |-> 0, errSize |-> 0]

InitShape ==
  /\ layer = NoLayer
  /\ deltas = Vec(0, 0)
  /\ buffer = Vec(0, 0)
  /\ node = Unused
  /\ net = Unused
  /\ last = NoCall

\* The object a constructor call leaves: none when the constructor throws.
Constructed(r) == IF r.ok THEN r.l ELSE NoLayer

NewLinear ==
  \E in \in Sizes, out \in Sizes, g \in GarbageVals, u \in GarbageVals :
    /\ layer = NoLayer
    /\ layer' = Constructed(GLayerLinear(in, out, g))
    /\ last' = ShapeObs("construct", GLayerLinear(in, out, g), u)
    /\ UNCHANGED <<deltas, buffer, node, net>>

NewActivation ==
  \E u \in GarbageVals :
    /\ layer = NoLayer
    /\ layer' = Constructed(GLayerActivation)
    /\ last' = ShapeObs("construct", GLayerActivation, u)
    /\ UNCHANGED <<deltas, buffer, node, net>>

NewPooling ==
  \E kind \in {"productpooling", "additionpooling"}, inps \in 0..(2 * MaxSize),
     g \in GarbageVals, u \in GarbageVals :
    /\ layer = NoLayer
    /\ layer' = Constructed(GLayerPooling(kind, inps, g))
    /\ last' = ShapeObs("construct", GLayerPooling(kind, inps, g), u)
    /\ UNCHANGED <<deltas, buffer, node, net>>

NewMaxOut ==
  \E in \in Sizes, out \in Sizes, g \in GarbageVals, u \in GarbageVals :
    /\ layer = NoLayer
    /\ layer' = Constructed(GLayerMaxOut(in, out, g))
    /\ last' = ShapeObs("construct", GLayerMaxOut(in, out, g), u)
    /\ UNCHANGED <<deltas, buffer, node, net>>

NewRBM ==
  \E in \in Sizes, out \in Sizes, g \in GarbageVals, u \in GarbageVals :
    /\ layer = NoLayer
    /\ layer' = Constructed(GLayerRBM(in, out, g))
    /\ last' = ShapeObs("construct", GLayerRBM(in, out, g), u)
    /\ UNCHANGED <<deltas, buffer, node, net>>

NewConv1D ==
  \E s \in Dims, c \in Dims, k \in 1..(MaxSize + 1), p \in Dims,
     g \in GarbageVals, u \in GarbageVals :
    /\ layer = NoLayer
    /\ layer' = Constructed(GLayerConvolutional1D(s, c, k, p, g))
    /\ last' = ShapeObs("construct", GLayerConvolutional1D(s, c, k, p, g), u)
    /\ UNCHANGED <<deltas, buffer, node, net>>

NewConv2D ==
  \E w \in Dims, h \in Dims, c \in Dims, kw \in Dims, k \in 0..MaxKernels,
     g \in GarbageVals, u \in GarbageVals :
    /\ layer = NoLayer
    /\ kw <= w /\ kw <= h
    /\ layer' = Constructed(GLayerConvolutional2D(w, h, c, kw, kw, k, g))
    /\ last' = ShapeObs("construct", GLayerConvolutional2D(w, h, c, kw, kw, k, g), u)
    /\ UNCHANGED <<deltas, buffer, node, net>>

NewConv2DFlexible ==
  \E kw \in Dims, kh \in Dims, k \in 0..MaxKernels, g \in GarbageVals, u \in GarbageVals :
    /\ layer = NoLayer
    /\ layer' = Constructed(GLayerConvolutional2D_flexible(kw, kh, k, g))
    /\ last' = ShapeObs("construct", GLayerConvolutional2D_flexible(kw, kh, k, g), u)
    /\ UNCHANGED <<deltas, buffer, node, net>>

NewMaxPooling2D ==
  \E cols \in Dims, rows \in Dims, c \in Dims, rs \in Dims,
     r \in GarbageVals, g \in GarbageVals, u \in GarbageVals :
    /\ layer = NoLayer
    /\ layer' = Constructed(GMaxPooling2D(cols, rows, c, rs, r, g))
    /\ last' = ShapeObs("construct", GMaxPooling2D(cols, rows, c, rs, r, g), u)
    /\ UNCHANGED <<deltas, buffer, node, net>>

DoResize ==
  \E in \in 0..(2 * MaxSize), out \in Sizes, g \in GarbageVals :
    /\ layer # NoLayer
    /\ layer' = Resize(layer, in, out, g).l
    /\ last' = ShapeObs("resize", Resize(layer, in, out, g), g)
    /\ UNCHANGED <<deltas, buffer, node, net>>

DoResizeInputs ==
  \E upstream \in Upstreams, g \in GarbageVals :
    /\ layer # NoLayer
    /\ layer' = ResizeInputs(layer, upstream, g).l
    /\ last' = ShapeObs("resizeInputs", ResizeInputs(layer, upstream, g), g)
    /\ UNCHANGED <<deltas, buffer, node, net>>

DoAddKernel ==
  \E g \in GarbageVals, u \in GarbageVals :
    /\ layer # NoLayer
    /\ layer.kind = "conv2d"
    /\ layer.m_kernels.rows < MaxKernels
    /\ layer' = addKernel(layer, g)
    /\ last' = ShapeObs("addKernel", Ok(addKernel(layer, g)), u)
    /\ UNCHANGED <<deltas, buffer, node, net>>

\* The layer is deleted.
DeleteLayer ==
  /\ layer # NoLayer
  /\ layer' = NoLayer
  /\ last' = NoCall
  /\ UNCHANGED <<deltas, buffer, node, net>>

NextShape ==
  \/ NewLinear \/ NewActivation \/ NewPooling \/ NewMaxOut \/ NewRBM
  \/ NewConv1D \/ NewConv2D \/ NewConv2DFlexible \/ NewMaxPooling2D
  \/ DoResize \/ DoResizeInputs \/ DoAddKernel \/ DeleteLayer

SpecShape == InitShape /\ [][NextShape]_vars

\* C1: for every layer kind, after a general-purpose constructor and after
\* every resize or resizeInputs call that returns without error,
\* activation().size() = outputs() and error().size() = outputs().
C1_BufferSizesMatchOutputs ==
  (last.op \in {"construct", "resize", "resizeInputs"} /\ last.ok)
    => (last.actSize = Outputs(layer) /\ last.errSize = Outputs(layer))

\* ============================================================ feedForward

\* The sum of f over the finite set S (f a function with S in its domain).
SumOver(S, f) ==
  LET RECURSIVE Sm(_)
      Sm(T) == IF T = {} THEN 0
               ELSE LET e == CHOOSE e \in T : TRUE IN f[e] + Sm(T \ {e})
  IN Sm(S)

\* v[i] through an unchecked operator[]: past the end of v the read finds
\* whatever lies there (u).
At(v, i, u) == IF i \in DOMAIN v THEN v[i] ELSE u

SetRow(m, r, v) == [m EXCEPT !.d[r] = v]

\* GLayerLinear::bias(): m_weights.back()
GLayerLinear_bias(l) == l.m_weights.d[l.m_weights.rows - 1]

\* A feedForward that adds to what the activation held instead of starting
\* from the bias.
GLayerLinear_feedForward_noCopy(l, in, u) ==
  LET n == GLayerLinear_inputs(l)
      a == [j \in 0..(GLayerLinear_outputs(l) - 1) |->
              l.m_activation.d[0][j]
                + SumOver(0..(n - 1), [i \in 0..(n - 1) |-> At(in, i, u) * l.m_weights.d[i][j]])]
  IN Ok([l EXCEPT !.m_activation = SetRow(@, 0, a)])

\* a.copy(bias()); then a.addScaled(in[i], m_weights.row(i)) for i < inputs().
\* The size of in is not looked at.
GLayerLinear_feedForward(l, in, u) ==
  LET n == GLayerLinear_inputs(l)
      a == [j \in 0..(GLayerLinear_outputs(l) - 1) |->
              GLayerLinear_bias(l)[j]
                + SumOver(0..(n - 1), [i \in 0..(n - 1) |-> At(in, i, u) * l.m_weights.d[i][j]])]
  IN Ok([l EXCEPT !.m_activation = SetRow(@, 0, a)])

\* GLayerRectifier::eval
eval(x) == IF x > 0 THEN x ELSE 0

\* a[i] = eval(in[i]) for i < inputs().  The size of in is not looked at.
GLayerActivation_feedForward(l, in, u) ==
  LET a == [i \in 0..(GLayerActivation_inputs(l) - 1) |-> eval(At(in, i, u))]
  IN Ok([l EXCEPT !.m_activation = SetRow(@, 0, a)])

\* GLayerProductPooling::feedForward, GLayerAdditionPooling::feedForward
GLayerPooling_feedForward(l, in, u) ==
  IF Size(in) # SizeT(l.m_activation.cols * 2)
  THEN Throw(l)
  ELSE IF l.m_activation.cols = 0
       THEN Ok(l)
       ELSE LET a == [i \in 0..(l.m_activation.cols - 1) |->
                        IF l.kind = "productpooling"
                        THEN in[2 * i] * in[2 * i + 1]
                        ELSE in[2 * i] + in[2 * i + 1]]
            IN Ok([l EXCEPT !.m_activation = SetRow(@, 0, a)])

\* ---- GLayerConvolutional2D::Image

\* Image::npos is (size_t)-1.
npos == SIZE_MOD - 1

\* Image::index with the bounds test made on signed numbers: a position left
\* of or above the image is below width and height and is given an index.
Image_index_signed(im, x, y, z) ==
  LET z1 == SizeT(z + im.dz)
      off == im.invertStride
               /\ (SizeT(x + im.dx) % im.sx > 0 \/ SizeT(y + im.dy) % im.sy > 0)
      x1 == IF im.invertStride
            THEN SizeT(SizeT(x + im.dx) \div im.sx - im.px)
            ELSE SizeT(x + im.dx * im.sx - im.px)
      y1 == IF im.invertStride
            THEN SizeT(SizeT(y + im.dy) \div im.sy - im.py)
            ELSE SizeT(y + im.dy * im.sy - im.py)
      x2 == IF im.flip THEN SizeT(im.width - x1 - 1) ELSE x1
      y2 == IF im.flip THEN SizeT(im.height - y1 - 1) ELSE y1
      sx2 == IF x2 >= SIZE_MOD \div 2 THEN x2 - SIZE_MOD ELSE x2
      sy2 == IF y2 >= SIZE_MOD \div 2 THEN y2 - SIZE_MOD ELSE y2
  IN IF off THEN npos
     ELSE IF sx2 >= im.width \/ sy2 >= im.height THEN npos
     ELSE IF im.interlaced
          THEN SizeT(SizeT(y2 * im.width + x2) * im.channels + z1)
          ELSE SizeT(SizeT(z1 * im.height + y2) * im.width + x2)

\* Image::index(x, y, z)
Image_index(im, x, y, z) ==
  LET z1 == SizeT(z + im.dz)
      off == im.invertStride
               /\ (SizeT(x + im.dx) % im.sx > 0 \/ SizeT(y + im.dy) % im.sy > 0)
      x1 == IF im.invertStride
            THEN SizeT(SizeT(x + im.dx) \div im.sx - im.px)
            ELSE SizeT(x + im.dx * im.sx - im.px)
      y1 == IF im.invertStride
            THEN SizeT(SizeT(y + im.dy) \div im.sy - im.py)
            ELSE SizeT(y + im.dy * im.sy - im.py)
      x2 == IF im.flip THEN SizeT(im.width - x1 - 1) ELSE x1
      y2 == IF im.flip THEN SizeT(im.height - y1 - 1) ELSE y1
  IN IF off THEN npos
     ELSE IF x2 >= im.width \/ y2 >= im.height THEN npos
     ELSE IF im.interlaced
          THEN SizeT(SizeT(y2 * im.width + x2) * im.channels + z1)
          ELSE SizeT(SizeT(z1 * im.height + y2) * im.width + x2)

\* Image::read(x, y, z) on the buffer data the image views.
Image_read(im, data, x, y, z, u) ==
  IF Image_index(im, x, y, z) = npos THEN 0
  ELSE At(data, Image_index(im, x, y, z), u)

\* filterSum(in, filter, channels)
filterSum(in, inData, filter, filterData, channels, u) ==
  LET cells == (0..(channels - 1)) \X (0..(filter.height - 1)) \X (0..(filter.width - 1))
  IN SumOver(cells, [c \in cells |->
       Image_read(in, inData, c[3], c[2], c[1], u)
         * Image_read(filter, filterData, c[3], c[2], c[1], u)])

\* The cells (x, y) of an image.
Pixels(im) == (0..(im.width - 1)) \X (0..(im.height - 1))

\* out.at(x, y) += val[<<x, y>>] for every pixel of out; at() throws when a
\* pixel has no index.  A write past the end of the buffer lands outside it.
AddAt(out, outData, val) ==
  IF \E c \in Pixels(out) : Image_index(out, c[1], c[2], 0) = npos
  THEN [ok |-> FALSE, data |-> outData]
  ELSE [ok |-> TRUE,
        data |-> [i \in DOMAIN outData |->
                    outData[i] + SumOver({c \in Pixels(out) : Image_index(out, c[1], c[2], 0) = i},
                                         [c \in Pixels(out) |-> val[c]])]]

\* convolve(in, filter, out): out.at(in.dx, in.dy, 0) += filterSum(...) with
\* in.dx = out.px + x, in.dy = out.py + y.
convolve(in, inData, filter, filterData, out, outData, u) ==
  IF \E c \in Pixels(out) : Image_index(out, out.px + c[1], out.py + c[2], 0) = npos
  THEN [ok |-> FALSE, data |-> outData]
  ELSE LET sum == [c \in Pixels(out) |->
                     filterSum([in EXCEPT !.dx = out.px + c[1], !.dy = out.py + c[2]],
                               inData, filter, filterData, filter.channels, u)]
       IN [ok |-> TRUE,
           data |-> [i \in DOMAIN outData |->
                       outData[i]
                         + SumOver({c \in Pixels(out) :
                                      Image_index(out, out.px + c[1], out.py + c[2], 0) = i},
                                   sum)]]

\* GLayerConvolutional2D::feedForward: the activation is zeroed, then for
\* each output channel dz the input is convolved with kernel dz and the bias
\* of the channel is added.  The size of in is not looked at.
GLayerConvolutional2D_feedForward(l, in, u) ==
  LET RECURSIVE Chan(_, _)
      Chan(dz, data) ==
        IF dz >= l.m_actImage.channels THEN [ok |-> TRUE, data |-> data]
        ELSE LET n == [l.m_actImage EXCEPT !.dz = dz]
                 c == convolve(l.m_inputImage, in, l.m_kernelImage,
                               l.m_kernels.d[dz], n, data, u)
                 b == AddAt(n, c.data, [p \in Pixels(n) |-> l.m_bias[dz]])
             IN IF ~c.ok \/ ~b.ok THEN [ok |-> FALSE, data |-> data]
                ELSE Chan(dz + 1, b.data)
      r == Chan(0, VecFill(l.m_activation.d[0], 0))
  IN IF r.ok
     THEN Ok([l EXCEPT !.m_activation = SetRow(@, 0, r.data)])
     ELSE Throw([l EXCEPT !.m_activation = SetRow(@, 0, r.data)])

\* GLayerMaxOut::bias(): m_bias[0]
GLayerMaxOut_bias(l) == l.m_bias.d[0]

\* For each output the winner is the first input with the largest
\* (in[j] + b[j]) * w[j][i]; one time in ten rand() replaces it by an input
\* drawn by rand().  rnd[i] is that input, or -1 when no draw is made.
GLayerMaxOut_feedForward(l, in, rnd, u) ==
  LET n == GLayerMaxOut_inputs(l)
      cand(i, j) == (At(in, j, u) + GLayerMaxOut_bias(l)[j]) * l.m_weights.d[j][i]
      first(i) == CHOOSE j \in 0..(n - 1) :
                    /\ \A q \in 0..(n - 1) : cand(i, q) <= cand(i, j)
                    /\ \A q \in 0..(j - 1) : cand(i, q) < cand(i, j)
      win == [i \in 0..(GLayerMaxOut_outputs(l) - 1) |->
                IF rnd[i] >= 0 THEN rnd[i] ELSE first(i)]
  IN Ok([l EXCEPT !.m_winners = win,
                  !.m_activation = SetRow(@, 0, [i \in DOMAIN win |-> cand(i, win[i])])])

\* GLayerRestrictedBoltzmannMachine::bias(): m_bias[0]
GLayerRBM_bias(l) == l.m_bias.d[0]

\* activation().copy(bias()); activation()[i] += in.dotProduct(m_weights[i]).
\* The dot product runs over the elements of in.
GLayerRBM_feedForward(l, in, u) ==
  LET a == [i \in 0..(GLayerRBM_outputs(l) - 1) |->
              GLayerRBM_bias(l)[i]
                + SumOver(DOMAIN in, [c \in DOMAIN in |-> in[c] * At(l.m_weights.d[i], c, u)])]
  IN Ok([l EXCEPT !.m_bias = SetRow(@, 1, a)])

\* A feedForward whose taps are adjacent in the input.
GLayerConvolutional1D_feedForward_adjacentTaps(l, in, u) ==
  LET C == l.m_inputChannels
      kpc == l.m_kernelsPerChannel
      kcount == Size(l.m_bias)
      a == [p \in DOMAIN l.m_activation.d[0] |->
              LET i == p \div kcount
                  kern == p % kcount
                  j == kern \div kpc
                  inPos == i * C + j
              IN l.m_bias[kern]
                   + SumOver(0..(l.m_kernels.cols - 1),
                             [t \in 0..(l.m_kernels.cols - 1) |->
                                l.m_kernels.d[kern][t] * At(in, inPos + t, u)])]
  IN Ok([l EXCEPT !.m_activation = SetRow(@, 0, a)])

\* The bias is copied once per output sample; then every kernel of every
\* input channel adds its taps, which are m_inputChannels apart in the input.
GLayerConvolutional1D_feedForward(l, in, u) ==
  LET C == l.m_inputChannels
      kpc == l.m_kernelsPerChannel
      kcount == Size(l.m_bias)
      a == [p \in DOMAIN l.m_activation.d[0] |->
              LET i == p \div kcount
                  kern == p % kcount
                  j == kern \div kpc
                  inPos == i * C + j
              IN l.m_bias[kern]
                   + SumOver(0..(l.m_kernels.cols - 1),
                             [t \in 0..(l.m_kernels.cols - 1) |->
                                l.m_kernels.d[kern][t] * At(in, inPos + t * C, u)])]
  IN Ok([l EXCEPT !.m_activation = SetRow(@, 0, a)])

\* virtual void feedForward(const GVec& in); rnd is what rand() gives a
\* GLayerMaxOut.
FeedForward(l, in, rnd, u) ==
  CASE l.kind = "linear" -> GLayerLinear_feedForward(l, in, u)
    [] l.kind = "activation" -> GLayerActivation_feedForward(l, in, u)
    [] l.kind \in {"productpooling", "additionpooling"} -> GLayerPooling_feedForward(l, in, u)
    [] l.kind = "maxout" -> GLayerMaxOut_feedForward(l, in, rnd, u)
    [] l.kind = "rbm" -> GLayerRBM_feedForward(l, in, u)
    [] l.kind = "conv1d" -> GLayerConvolutional1D_feedForward(l, in, u)
    [] l.kind = "conv2d" -> GLayerConvolutional2D_feedForward(l, in, u)

\* activation() of a layer that has the row.
Activation(l) == ActMatrix(l).d[ActRow(l)]

\* ===================================================== weights and deltas

\* error() of a layer that has the row.
Error(l) == ActMatrix(l).d[ErrRow(l)]

\* virtual size_t countWeights()
CountWeights(l) ==
  CASE l.kind = "linear" -> SizeT((GLayerLinear_inputs(l) + 1) * GLayerLinear_outputs(l))
    [] l.kind = "maxout" -> SizeT(GLayerMaxOut_inputs(l) * (GLayerMaxOut_outputs(l) + 1))
    [] l.kind = "rbm" -> SizeT((GLayerRBM_inputs(l) + 1) * GLayerRBM_outputs(l))
    [] l.kind = "conv1d" -> SizeT((l.m_kernels.rows + 1) * l.m_kernels.cols)
    [] l.kind = "conv2d" ->
         SizeT(SizeT(SizeT(l.m_kWidth * l.m_kHeight) * l.m_channels) * l.m_kernels.rows
                 + l.m_kernels.rows)
    [] OTHER -> 0

Parameterized == {"linear", "maxout", "rbm", "conv1d", "conv2d"}

\* Most a draw of the random generator gives.
MaxWeight == 3

\* The n-th value rand.normal() gives after the generator was seeded.
Draw(seed, n) == 1 + ((seed + n) % MaxWeight)

\* virtual void resetWeights(GRand& rand): every weight and bias is drawn, in
\* the order of the loops.
ResetWeights(l, seed) ==
  CASE l.kind = "linear" ->
         [l EXCEPT !.m_weights.d =
            [i \in DOMAIN @ |-> [j \in DOMAIN @[i] |-> Draw(seed, i * l.m_weights.cols + j)]]]
    [] l.kind = "maxout" ->
         [l EXCEPT !.m_weights.d =
                     [i \in DOMAIN @ |-> [j \in DOMAIN @[i] |-> Draw(seed, i * l.m_weights.cols + j)]],
                   !.m_bias.d[0] =
                     [i \in DOMAIN @ |-> Draw(seed, l.m_weights.rows * l.m_weights.cols + i)]]
    [] l.kind = "rbm" ->
         [l EXCEPT !.m_weights.d =
                     [i \in DOMAIN @ |->
                        [j \in DOMAIN @[i] |-> Draw(seed, i * (l.m_weights.cols + 1) + 1 + j)]],
                   !.m_bias.d[0] = [i \in DOMAIN @ |-> Draw(seed, i * (l.m_weights.cols + 1))],
                   !.m_biasReverse.d[0] =
                     [i \in DOMAIN @ |-> Draw(seed, l.m_weights.rows * (l.m_weights.cols + 1) + i)]]
    [] l.kind \in {"conv1d", "conv2d"} ->
         [l EXCEPT !.m_kernels.d =
                     [i \in DOMAIN @ |-> [j \in DOMAIN @[i] |-> Draw(seed, i * l.m_kernels.cols + j)]],
                   !.m_bias =
                     [i \in DOMAIN @ |-> Draw(seed, l.m_kernels.rows * l.m_kernels.cols + i)]]
    [] OTHER -> l

\* The buffer dbuf with g[k] added to every slot k the call writes; a slot past the
\* end of the buffer is outside it.
Accumulate(dbuf, g) ==
  [k \in DOMAIN dbuf |-> dbuf[k] + (IF k \in DOMAIN g THEN g[k] ELSE 0)]

\* *delta++ += err[j] * act for each input and output, then += err[j] for
\* the bias.
GLayerLinear_updateDeltas(l, upStreamActivation, dbuf, u) ==
  LET in == GLayerLinear_inputs(l)
      out == GLayerLinear_outputs(l)
      err == Error(l)
      g == [k \in 0..((in + 1) * out - 1) |->
              IF k < in * out
              THEN err[k % out] * At(upStreamActivation, k \div out, u)
              ELSE err[k % out]]
  IN Accumulate(dbuf, g)

\* Two slots per output: the bias, then the weight of the winner.
GLayerMaxOut_updateDeltas(l, upStreamActivation, dbuf, u) ==
  LET err == Error(l)
      g == [k \in 0..(2 * GLayerMaxOut_outputs(l) - 1) |->
              IF k % 2 = 0
              THEN err[k \div 2]
              ELSE err[k \div 2] * At(upStreamActivation, l.m_winners[k \div 2], u)]
  IN Accumulate(dbuf, g)

\* One window of m_weights.cols() slots per output, then one more window to
\* which err is added.
GLayerRBM_updateDeltas(l, upStreamActivation, dbuf, u) ==
  LET in == GLayerRBM_inputs(l)
      out == GLayerRBM_outputs(l)
      err == Error(l)
      g == [k \in 0..((out + 1) * in - 1) |->
              IF k < out * in
              THEN err[k \div in] * At(upStreamActivation, k % in, u)
              ELSE At(err, k - out * in, u)]
  IN Accumulate(dbuf, g)

\* For each output sample the pointer starts again at the first slot; per
\* kernel there are kernelSize slots and one for the bias.
GLayerConvolutional1D_updateDeltas(l, upStreamActivation, dbuf, u) ==
  LET K == l.m_kernels.cols
      C == l.m_inputChannels
      kpc == l.m_kernelsPerChannel
      err == Error(l)
      samples == 0..(l.m_outputSamples - 1)
      g == [k \in 0..(C * kpc * (K + 1) - 1) |->
              LET kern == k \div (K + 1)
                  t == k % (K + 1)
                  j == kern \div kpc
              IN SumOver(samples, [i \in samples |->
                   IF t < K
                   THEN At(err, i * C * kpc + kern, u) * At(upStreamActivation, i * C + j + t * C, u)
                   ELSE At(err, i * C * kpc + kern, u)])]
  IN Accumulate(dbuf, g)

\* For each output channel dz the window of the kernel is filled with 0.0,
\* then for each input channel and each output position the input, scaled by
\* the error there, is added to the window and the error to the bias slot
\* that follows the window.
GLayerConvolutional2D_updateDeltas(l, upStreamActivation, dbuf, u) ==
  LET count == l.m_kernels.cols
      errData == Error(l)
      outs == (0..(l.m_errImage.width - 1)) \X (0..(l.m_errImage.height - 1))
      chans == 0..(l.m_inputImage.channels - 1)
      errAt(dz, o) == Image_read([l.m_errImage EXCEPT !.dz = dz], errData, o[1], o[2], 0, u)
      taps == Pixels(l.m_deltaImage)
      \* what slot c of the window of channel dz receives
      tapSum(dz, c) ==
        SumOver(chans \X outs \X taps,
                [e \in chans \X outs \X taps |->
                   IF Image_index([l.m_deltaImage EXCEPT !.dz = e[1]], e[3][1], e[3][2], 0) = c
                   THEN Image_read([l.m_inputImage EXCEPT !.dz = e[1], !.dx = e[2][1], !.dy = e[2][2]],
                                   upStreamActivation, e[3][1], e[3][2], 0, u)
                          * errAt(dz, e[2])
                   ELSE 0])
      biasSum(dz) == SumOver(chans \X outs, [e \in chans \X outs |-> errAt(dz, e[2])])
  IN [k \in DOMAIN dbuf |->
        IF k \div (count + 1) < l.m_errImage.channels
        THEN (IF k % (count + 1) < count
              THEN tapSum(k \div (count + 1), k % (count + 1))
              ELSE dbuf[k] + biasSum(k \div (count + 1)))
        ELSE dbuf[k]]

\* virtual void updateDeltas(const GVec& upStreamActivation, GVec& dbuf)
UpdateDeltas(l, upStreamActivation, dbuf, u) ==
  CASE l.kind = "linear" -> GLayerLinear_updateDeltas(l, upStreamActivation, dbuf, u)
    [] l.kind = "maxout" -> GLayerMaxOut_updateDeltas(l, upStreamActivation, dbuf, u)
    [] l.kind = "rbm" -> GLayerRBM_updateDeltas(l, upStreamActivation, dbuf, u)
    [] l.kind = "conv1d" -> GLayerConvolutional1D_updateDeltas(l, upStreamActivation, dbuf, u)
    [] l.kind = "conv2d" -> GLayerConvolutional2D_updateDeltas(l, upStreamActivation, dbuf, u)

\* m_weights[i][j] += learningRate * *delta++, then the bias row.
GLayerLinear_applyDeltas(l, learningRate, dbuf, u) ==
  LET out == GLayerLinear_outputs(l)
  IN [l EXCEPT !.m_weights.d =
        [i \in DOMAIN @ |-> [j \in DOMAIN @[i] |->
           @[i][j] + learningRate * At(dbuf, i * out + j, u)]]]

\* bi[up] += learningRate * *delta++; m_weights[up][down] += learningRate *
\* *delta++, with up the winner of down.
GLayerMaxOut_applyDeltas(l, learningRate, dbuf, u) ==
  LET downs == 0..(GLayerMaxOut_outputs(l) - 1)
      won(p) == {down \in downs : l.m_winners[down] = p}
  IN [l EXCEPT
        !.m_bias.d[0] =
          [p \in DOMAIN @ |->
             @[p] + learningRate * SumOver(won(p), [down \in downs |-> At(dbuf, 2 * down, u)])],
        !.m_weights.d =
          [p \in DOMAIN @ |-> [down \in DOMAIN @[p] |->
             IF l.m_winners[down] = p
             THEN @[p][down] + learningRate * At(dbuf, 2 * down + 1, u)
             ELSE @[p][down]]]]

\* m_weights[i].addScaled(learningRate, window i); then
\* bias().addScaled(learningRate, the window after the last).
GLayerRBM_applyDeltas(l, learningRate, dbuf, u) ==
  LET in == GLayerRBM_inputs(l)
      out == GLayerRBM_outputs(l)
  IN [l EXCEPT
        !.m_weights.d =
          [i \in DOMAIN @ |-> [c \in DOMAIN @[i] |->
             @[i][c] + learningRate * At(dbuf, i * in + c, u)]],
        !.m_bias.d[0] =
          [j \in DOMAIN @ |-> @[j] + learningRate * At(dbuf, out * in + j, u)]]

\* Per kernel: its taps, then its bias.
GLayerConvolutional1D_applyDeltas(l, learningRate, dbuf, u) ==
  LET K == l.m_kernels.cols
      kcount == SizeT(l.m_inputChannels * l.m_kernelsPerChannel)
  IN [l EXCEPT
        !.m_kernels.d =
          [kern \in DOMAIN @ |-> [t \in DOMAIN @[kern] |->
             IF kern < kcount
             THEN @[kern][t] + learningRate * At(dbuf, kern * (K + 1) + t, u)
             ELSE @[kern][t]]],
        !.m_bias =
          [kern \in DOMAIN @ |->
             IF kern < kcount
             THEN @[kern] + learningRate * At(dbuf, kern * (K + 1) + K, u)
             ELSE @[kern]]]

\* Per kernel: m_kernels[i].addScaled(learningRate, window i); m_bias[i] +=
\* learningRate * the slot after the window.
GLayerConvolutional2D_applyDeltas(l, learningRate, dbuf, u) ==
  LET count == l.m_kernels.cols
  IN [l EXCEPT
        !.m_kernels.d =
          [i \in DOMAIN @ |-> [c \in DOMAIN @[i] |->
             @[i][c] + learningRate * At(dbuf, i * (count + 1) + c, u)]],
        !.m_bias =
          [i \in DOMAIN @ |->
             IF i < l.m_kernels.rows
             THEN @[i] + learningRate * At(dbuf, i * (count + 1) + count, u)
             ELSE @[i]]]

\* virtual void applyDeltas(double learningRate, const GVec& deltas)
ApplyDeltas(l, learningRate, dbuf, u) ==
  CASE l.kind = "linear" -> GLayerLinear_applyDeltas(l, learningRate, dbuf, u)
    [] l.kind = "maxout" -> GLayerMaxOut_applyDeltas(l, learningRate, dbuf, u)
    [] l.kind = "rbm" -> GLayerRBM_applyDeltas(l, learningRate, dbuf, u)
    [] l.kind = "conv1d" -> GLayerConvolutional1D_applyDeltas(l, learningRate, dbuf, u)
    [] l.kind = "conv2d" -> GLayerConvolutional2D_applyDeltas(l, learningRate, dbuf, u)
    [] OTHER -> l

\* ================================================================ GNeuralNet
\* GNeuralNet.cpp is not among the sources; the network operations follow the
\* declarations and comments of GNeuralNet.h and the description of the
\* network (section 4.3).  Every layer call they make is the layer's own code.

\* m_layers and m_ready are the members; trained tells that an optimisation
\* step has updated the weights since the network became ready; onlyAdds
\* tells that the layers were put together by addLayer calls alone.
GNeuralNet0 == [m_layers |-> <<>>, m_ready |-> FALSE, trained |-> FALSE, onlyAdds |-> TRUE]

\* The four states of a network.
NetState(n) ==
  IF n.m_ready THEN (IF n.trained THEN "Trained" ELSE "Ready")
  ELSE IF Len(n.m_layers) = 0 THEN "Unconfigured" ELSE "Assembling"

\* The new layer has a declared input size that differs from what the last
\* layer of the network puts out.
Conflict(n, new) ==
  /\ Len(n.m_layers) > 0
  /\ Inputs(new) # FLEXIBLE_SIZE
  /\ Outputs(n.m_layers[Len(n.m_layers)]) # Inputs(new)

\* addLayer(pLayer) at the default position, the end.  A new layer with
\* FLEXIBLE_SIZE inputs takes its inputs from the layer before it; otherwise
\* the last one added wins and the layer before it is resized to fit.  A
\* layer that refuses the resize fails the call.
GNeuralNet_addLayer(n, new, g) ==
  LET k == Len(n.m_layers)
      prev == n.m_layers[k]
      fit == ResizeInputs(new, prev, g)
      grown == Resize(prev, Inputs(prev), Inputs(new), g)
      n1 == [n EXCEPT !.m_ready = FALSE, !.trained = FALSE]
  IN IF k = 0 \/ Outputs(prev) = Inputs(new)
     THEN [ok |-> TRUE, n |-> [n1 EXCEPT !.m_layers = Append(@, new)]]
     ELSE IF Inputs(new) = FLEXIBLE_SIZE
     THEN (IF fit.ok
           THEN [ok |-> TRUE, n |-> [n1 EXCEPT !.m_layers = Append(@, fit.l)]]
           ELSE [ok |-> FALSE, n |-> n])
     ELSE (IF grown.ok
           THEN [ok |-> TRUE,
                 n |-> [n1 EXCEPT !.m_layers = Append([@ EXCEPT ![k] = grown.l], new)]]
           ELSE [ok |-> FALSE, n |-> n])

\* releaseLayer(index): drops the layer; the remaining layers are not resized
\* to fit with each other.
GNeuralNet_releaseLayer(n, index) ==
  [n EXCEPT !.m_layers = SubSeq(@, 1, index - 1) \o SubSeq(@, index + 1, Len(@)),
            !.m_ready = FALSE, !.trained = FALSE, !.onlyAdds = FALSE]

\* Every adjacent pair of layers lines up.
Aligned(layers) ==
  \A i \in 1..(Len(layers) - 1) : Outputs(layers[i]) = Inputs(layers[i + 1])

\* ============================================ layer composition (SpecCompose)
\* Layers of every kind are added to a network, one after the other.

\* Most layers a network of the model holds.
MaxLayers == 3

\* The constructor calls the layers to add come from (those that return).
Candidates ==
  {GLayerLinear(FLEXIBLE_SIZE, MaxSize, 0), GLayerLinear(1, 1, 0), GLayerLinear(MaxSize, 1, 0)}
    \cup {GLayerActivation}
    \cup {GLayerPooling("productpooling", inps, 0) : inps \in {FLEXIBLE_SIZE, 2}}
    \cup {GLayerPooling("additionpooling", 2, 0)}
    \cup {GLayerMaxOut(FLEXIBLE_SIZE, 1, 0), GLayerMaxOut(2, 2, 0)}
    \cup {GLayerRBM(FLEXIBLE_SIZE, 2, 0)}
    \cup {GLayerConvolutional1D(2, 1, 1, 1, 0)}
    \cup {GLayerConvolutional2D(2, 1, 1, 1, 1, 1, 0), GLayerConvolutional2D_flexible(1, 1, 1, 0)}
    \cup {GMaxPooling2D(2, 2, 1, 2, r, 0) : r \in GarbageVals}

NewLayers == {c.l : c \in {x \in Candidates : x.ok}}

\* What the caller of a network operation sees, and what it passed.
NetObs(op, ok, n, new) ==
  LET k == Len(n.m_layers)
      adding == new # NoLayer
  IN [op |-> op, ok |-> ok, state |-> NetState(n),
      conflict |-> adding /\ Conflict(n, new),
      fitted |-> adding /\ k > 0 /\ Inputs(new) = FLEXIBLE_SIZE
                   /\ Outputs(n.m_layers[k]) # FLEXIBLE_SIZE,
      prevKind |-> IF k > 0 THEN n.m_layers[k].kind ELSE "none",
      up |-> IF k > 0 THEN Outputs(n.m_layers[k]) ELSE 0,
      declIn |-> IF adding THEN Inputs(new) ELSE 0,
      declOut |-> IF adding THEN Outputs(new) ELSE 0]

InitCompose ==
  /\ layer = NoLayer
  /\ deltas = Vec(0, 0)
  /\ buffer = Vec(0, 0)
  /\ node = Unused
  /\ net = GNeuralNet0
  /\ last = NetObs("none", TRUE, GNeuralNet0, NoLayer)

\* (No cell of a weight matrix is read while layers are put together: the
\* cells a resize allocates are taken to hold 0.)
AddLayer ==
  \E new \in NewLayers :
    /\ Len(net.m_layers) < MaxLayers
    /\ net' = GNeuralNet_addLayer(net, new, 0).n
    /\ last' = NetObs("addLayer", GNeuralNet_addLayer(net, new, 0).ok, net, new)
    /\ UNCHANGED <<layer, deltas, buffer, node>>

\* The network is deleted and a new one constructed.
NewNet ==
  /\ net # GNeuralNet0
  /\ net' = GNeuralNet0
  /\ last' = NetObs("none", TRUE, GNeuralNet0, NoLayer)
  /\ UNCHANGED <<layer, deltas, buffer, node>>

NextCompose == AddLayer \/ NewNet

SpecCompose == InitCompose /\ [][NextCompose]_vars

\* The layer the last addLayer call added, and the one before it.
Added == net.m_layers[Len(net.m_layers)]

Neighbor == net.m_layers[Len(net.m_layers) - 1]

FreelyResized == {"linear", "maxout", "rbm"}

MaxVal == 2

\* Most examples of one batch.
MaxBatch == 1

\* Vectors whose elements differ from place to place.
Ramp(n, x) == [i \in 0..(n - 1) |-> x + i]

\* The layers the training runs on: every kind that can be given one input at
\* least (an activation layer gets its size from resize).
TrainCandidates(g) ==
  {GLayerLinear(in, out, g) : in \in Dims, out \in Dims}
    \cup {GLayerMaxOut(in, out, g) : in \in Dims, out \in Dims}
    \cup {GLayerRBM(in, out, g) : in \in Dims, out \in Dims}
    \cup {GLayerConvolutional1D(sm, c, k, kpc, g) : sm \in Dims, c \in Dims, k \in Dims, kpc \in Dims}
    \cup {GLayerConvolutional2D(w, w, c, kw, kw, k, g) :
            w \in Dims, c \in Dims, kw \in Dims, k \in 1..MaxKernels}
    \cup {GLayerActivation_resize(GLayerActivation.l, n, n, g) : n \in Dims}
    \cup {GLayerPooling(kind, 2 * n, g) : kind \in {"productpooling", "additionpooling"}, n \in Dims}

TrainLayers(g) ==
  {c.l : c \in {x \in TrainCandidates(g) :
                  x.ok /\ (x.l.kind = "conv2d" => x.l.m_kWidth <= x.l.m_width)}}

Idle == [pc |-> "none", batch |-> 0]

TrainObs(op, ok) ==
  [op |-> op, ok |-> ok, inSize |-> 0, inputs |-> 0, preAct |-> <<>>,
   d0 |-> <<>>, g |-> <<>>, pre |-> NoLayer, lr |-> 0]

InitTrain ==
  /\ layer = NoLayer
  /\ deltas = Vec(0, 0)
  /\ buffer = Vec(0, 0)
  /\ node = Idle
  /\ net = Unused
  /\ last = TrainObs("none", TRUE)

\* new GLayer...(...); resetWeights(rand), rand a generator seeded with 0.
TrainNew ==
  \E g \in GarbageVals :
    \E l \in TrainLayers(g) :
      /\ node.pc = "none"
      /\ layer' = ResetWeights(l, 0)
      /\ node' = [pc |-> "new", batch |-> 0]
      /\ last' = TrainObs("construct", TRUE)
      /\ UNCHANGED <<deltas, buffer, net>>

\* GVec deltas(countWeights()), then filled by the caller.
TrainNewDeltas ==
  \E d \in 0..(MaxVal - 1) :
    /\ node.pc = "new"
    /\ deltas' = [k \in 0..(CountWeights(layer) - 1) |-> d * (k + 1)]
    /\ node' = [node EXCEPT !.pc = "ready"]
    /\ last' = TrainObs("newDeltas", TRUE)
    /\ UNCHANGED <<layer, buffer, net>>

\* The outputs rand() may give a GLayerMaxOut: per output no draw (-1) or an
\* input.
Rnds(l) ==
  IF l.kind = "maxout"
  THEN [0..(GLayerMaxOut_outputs(l) - 1) -> -1..(GLayerMaxOut_inputs(l) - 1)]
  ELSE {<<>>}

\* The sizes of the inputs fed to a layer: the right one, one element short
\* and one element long.
FeedSizes(l) ==
  IF l = NoLayer THEN {} ELSE {Inputs(l) - 1, Inputs(l), Inputs(l) + 1} \cap Nat

TrainFeedForward ==
  \E n \in FeedSizes(layer), x \in 1..MaxVal, u \in GarbageVals :
    \E rnd \in Rnds(layer) :
      /\ node.pc \in {"ready", "updated"}
      /\ node.batch < MaxBatch
      /\ layer' = FeedForward(layer, Ramp(n, x), rnd, u).l
      /\ buffer' = Ramp(n, x)
      /\ node' = [node EXCEPT !.pc = IF FeedForward(layer, Ramp(n, x), rnd, u).ok
                                     THEN "fed" ELSE "failed"]
      /\ last' = [TrainObs("feedForward", FeedForward(layer, Ramp(n, x), rnd, u).ok)
                    EXCEPT !.inSize = n, !.inputs = Inputs(layer),
                           !.preAct = Activation(layer)]
      /\ UNCHANGED <<deltas, net>>

\* What lies downstream writes error() (a downstream layer's backPropError,
\* or the blame of the network on its last layer).
TrainSetError ==
  \E e \in 1..MaxVal :
    /\ node.pc = "fed"
    /\ layer.kind \in Parameterized
    /\ layer' = IF layer.kind = "rbm"
                THEN [layer EXCEPT !.m_bias = SetRow(@, 2, Ramp(Outputs(layer), e))]
                ELSE [layer EXCEPT !.m_activation = SetRow(@, 1, Ramp(Outputs(layer), e))]
    /\ node' = [node EXCEPT !.pc = "err"]
    /\ last' = TrainObs("setError", TRUE)
    /\ UNCHANGED <<deltas, buffer, net>>

TrainUpdateDeltas ==
  \E u \in GarbageVals :
    /\ node.pc = "err"
    /\ deltas' = UpdateDeltas(layer, buffer, deltas, u)
    /\ node' = [pc |-> "updated", batch |-> node.batch + 1]
    /\ last' = [TrainObs("updateDeltas", TRUE)
                  EXCEPT !.d0 = deltas,
                         !.g = UpdateDeltas(layer, buffer, VecFill(deltas, 0), u)]
    /\ UNCHANGED <<layer, buffer, net>>

TrainApplyDeltas ==
  \E lr \in 1..MaxVal, u \in GarbageVals :
    /\ node.pc = "updated"
    /\ layer' = ApplyDeltas(layer, lr, deltas, u)
    /\ node' = [node EXCEPT !.pc = "applied"]
    /\ last' = [TrainObs("applyDeltas", TRUE) EXCEPT !.pre = layer, !.lr = lr, !.d0 = deltas]
    /\ UNCHANGED <<deltas, buffer, net>>

\* The layer and the buffer are deleted.
TrainDelete ==
  /\ node.pc # "none"
  /\ layer' = NoLayer
  /\ deltas' = Vec(0, 0)
  /\ buffer' = Vec(0, 0)
  /\ node' = Idle
  /\ last' = TrainObs("none", TRUE)
  /\ UNCHANGED net

NextTrain ==
  \/ TrainNew \/ TrainNewDeltas \/ TrainFeedForward \/ TrainSetError
  \/ TrainUpdateDeltas \/ TrainApplyDeltas \/ TrainDelete

SpecTrain == InitTrain /\ [][NextTrain]_vars

\* C3: for every parameterized layer and every content d0 of the deltas
\* buffer, updateDeltas on an input of inputs() elements leaves
\* deltas[k] = d0[k] + g[k] for every slot k, g being what the same call
\* leaves in a buffer of zeros.
C3_UpdateDeltasAccumulates ==
  (last.op = "updateDeltas" /\ Size(buffer) = Inputs(layer)) =>
    deltas = [k \in DOMAIN last.d0 |-> last.d0[k] + last.g[k]]

\* The sum of the elements of a vector and of a matrix.
VecTotal(v) == SumOver(DOMAIN v, v)

MatTotal(m) == SumOver(DOMAIN m.d, [i \in DOMAIN m.d |-> VecTotal(m.d[i])])

\* The sum of all the weights and biases a layer learns.
WeightTotal(l) ==
  CASE l.kind = "linear" -> MatTotal(l.m_weights)
    [] l.kind = "maxout" -> MatTotal(l.m_weights) + VecTotal(GLayerMaxOut_bias(l))
    [] l.kind = "rbm" -> MatTotal(l.m_weights) + VecTotal(GLayerRBM_bias(l))
    [] l.kind \in {"conv1d", "conv2d"} -> MatTotal(l.m_kernels) + VecTotal(l.m_bias)

\* C4: applyDeltas adds learningRate * deltas[k] to one weight for every slot
\* k of the buffer, so the weights gain learningRate times the sum of the
\* buffer in all; the buffer, activation() and error() are as they were.
C4_ApplyDeltasAddsEverySlot ==
  last.op = "applyDeltas" =>
    /\ WeightTotal(layer) = WeightTotal(last.pre) + last.lr * VecTotal(last.d0)
    /\ deltas = last.d0
    /\ Activation(layer) = Activation(last.pre)
    /\ Error(layer) = Error(last.pre)

\* C8: feedForward of an input whose size is not inputs() fails and leaves
\* activation() as it was.
C8_WrongSizeInputFails ==
  (last.op = "feedForward" /\ last.inSize # last.inputs) =>
    (~last.ok /\ Activation(layer) = last.preAct)

\* ================================================ network life cycle (SpecNet)
\* A network is assembled, made ready by beginIncrementalLearning, used by
\* forwardProp and predict and trained by step; every call may be tried in
\* every state.

\* beginIncrementalLearning(featureRel, labelRel): the two ends are resized to
\* fit the data (GLayer.h, the comment on FLEXIBLE_SIZE), every layer's
\* weights are reset and the network is ready.  A network with no layer, or
\* with an end that refuses the size, fails the call.
GNeuralNet_beginIncrementalLearning(n, featureDims, labelDims, g) ==
  LET k == Len(n.m_layers)
      first == Resize(n.m_layers[1], featureDims,
                      IF k = 1 THEN labelDims ELSE Outputs(n.m_layers[1]), g)
      final == Resize(n.m_layers[k], Inputs(n.m_layers[k]), labelDims, g)
      fitted == [i \in 1..k |-> IF i = 1 THEN first.l
                                ELSE IF i = k THEN final.l ELSE n.m_layers[i]]
  IN IF k = 0 THEN [ok |-> FALSE, n |-> n]
     ELSE IF ~first.ok \/ (k > 1 /\ ~final.ok) THEN [ok |-> FALSE, n |-> n]
     ELSE [ok |-> TRUE,
           n |-> [n EXCEPT !.m_layers = [i \in 1..k |-> ResetWeights(fitted[i], 0)],
                           !.m_ready = TRUE, !.trained = FALSE]]

\* feedForward of the layer kinds the networks here are made of.
NetFeedForward(l, in, u) ==
  CASE l.kind = "linear" -> GLayerLinear_feedForward(l, in, u)
    [] l.kind = "activation" -> GLayerActivation_feedForward(l, in, u)
    [] l.kind \in {"productpooling", "additionpooling"} -> GLayerPooling_feedForward(l, in, u)

\* forwardProp(inputs): layer 0 is fed the inputs and every later layer the
\* activation of the layer before it.  A network that is not ready fails the
\* call; a layer that throws ends it where it is.
GNeuralNet_forwardProp(n, inputs, u) ==
  LET k == Len(n.m_layers)
      fed[i \in 1..k] ==
        IF i = 1 THEN NetFeedForward(n.m_layers[1], inputs, u)
        ELSE IF fed[i - 1].ok
             THEN NetFeedForward(n.m_layers[i], Activation(fed[i - 1].l), u)
             ELSE Throw(n.m_layers[i])
  IN IF ~n.m_ready THEN [ok |-> FALSE, n |-> n]
     ELSE [ok |-> \A i \in 1..k : fed[i].ok,
           n |-> [n EXCEPT !.m_layers = [i \in 1..k |-> fed[i].l]]]

\* copyPrediction(out): the activation of the last layer.
GNeuralNet_copyPrediction(n) == Activation(n.m_layers[Len(n.m_layers)])

\* step(learningRate, gradient): every layer applies its own segment of the
\* gradient, the segments following each other in the order of the layers.
GNeuralNet_step(n, learningRate, gradient) ==
  LET k == Len(n.m_layers)
      RECURSIVE Start(_)
      Start(i) == IF i = 1 THEN 0 ELSE Start(i - 1) + CountWeights(n.m_layers[i - 1])
      segment(i) == [j \in 0..(CountWeights(n.m_layers[i]) - 1) |-> gradient[Start(i) + j]]
  IN IF ~n.m_ready THEN [ok |-> FALSE, n |-> n]
     ELSE [ok |-> TRUE,
           n |-> [n EXCEPT !.m_layers = [i \in 1..k |-> ApplyDeltas(@[i], learningRate, segment(i), 0)],
                           !.trained = TRUE]]

\* countWeights() of the network.
GNeuralNet_countWeights(n) ==
  SumOver(1..Len(n.m_layers), [i \in 1..Len(n.m_layers) |-> CountWeights(n.m_layers[i])])

\* Most calls of releaseLayer, beginIncrementalLearning and step that one
\* network takes.
MaxChanges == 2

\* The layers the networks are made of.
NetLayers ==
  {GLayerLinear(FLEXIBLE_SIZE, 1, 0).l, GLayerLinear(2, FLEXIBLE_SIZE, 0).l,
   GLayerActivation.l, GLayerPooling("productpooling", 2, 0).l}

Fresh == [changes |-> 0, features |-> 0, labels |-> 0]

\* What a call did: whether it returned, the state it was made in and, for
\* predict, the vector it gave back.
LifeObs(op, ok) == [op |-> op, ok |-> ok, from |-> NetState(net), out |-> <<>>]

InitNet ==
  /\ layer = NoLayer
  /\ deltas = Vec(0, 0)
  /\ buffer = Vec(0, 0)
  /\ node = Fresh
  /\ net = GNeuralNet0
  /\ last = [op |-> "none", ok |-> TRUE, from |-> "Unconfigured", out |-> <<>>]

NetAddLayer ==
  \E new \in NetLayers :
    LET r == GNeuralNet_addLayer(net, new, 0)
    IN /\ Len(net.m_layers) < MaxLayers
       /\ net' = r.n
       /\ last' = LifeObs("addLayer", r.ok)
       /\ node' = IF r.ok THEN [Fresh EXCEPT !.changes = node.changes] ELSE node
       /\ UNCHANGED <<layer, deltas, buffer>>

NetReleaseLayer ==
  \E index \in 1..Len(net.m_layers) :
    /\ node.changes < MaxChanges
    /\ net' = GNeuralNet_releaseLayer(net, index)
    /\ last' = LifeObs("releaseLayer", TRUE)
    /\ node' = [Fresh EXCEPT !.changes = node.changes + 1]
    /\ UNCHANGED <<layer, deltas, buffer>>

NetBeginIncrementalLearning ==
  \E featureDims \in Dims, labelDims \in Dims :
    LET r == GNeuralNet_beginIncrementalLearning(net, featureDims, labelDims, 0)
    IN /\ node.changes < MaxChanges
       /\ net' = r.n
       /\ last' = LifeObs("beginIncrementalLearning", r.ok)
       /\ node' = IF r.ok
                  THEN [changes |-> node.changes + 1,
                        features |-> featureDims, labels |-> labelDims]
                  ELSE node
       /\ UNCHANGED <<layer, deltas, buffer>>

\* The inputs a caller feeds a network: a row of the data it was made ready
\* for.
Rows == {Ramp(node.features, x) : x \in 1..MaxVal}

NetForwardProp ==
  \E in \in Rows, u \in GarbageVals :
    LET r == GNeuralNet_forwardProp(net, in, u)
    IN /\ net' = r.n
       /\ last' = LifeObs("forwardProp", r.ok)
       /\ UNCHANGED <<layer, deltas, buffer, node>>

\* predict(in, out): forwardProp(in); copyPrediction(out).
NetPredict ==
  \E in \in Rows, u \in GarbageVals :
    LET r == GNeuralNet_forwardProp(net, in, u)
    IN /\ net' = r.n
       /\ last' = [LifeObs("predict", r.ok)
                     EXCEPT !.out = IF r.ok THEN GNeuralNet_copyPrediction(r.n) ELSE <<>>]
       /\ UNCHANGED <<layer, deltas, buffer, node>>

NetStep ==
  \E learningRate \in 1..MaxVal :
    LET r == GNeuralNet_step(net, learningRate, Vec(GNeuralNet_countWeights(net), 1))
    IN /\ node.changes < MaxChanges
       /\ net' = r.n
       /\ last' = LifeObs("step", r.ok)
       /\ node' = IF r.ok THEN [node EXCEPT !.changes = @ + 1] ELSE node
       /\ UNCHANGED <<layer, deltas, buffer>>

NextNet ==
  \/ NetAddLayer \/ NetReleaseLayer \/ NetBeginIncrementalLearning
  \/ NetForwardProp \/ NetPredict \/ NetStep

SpecNet == InitNet /\ [][NextNet]_vars

Structural == {"addLayer", "releaseLayer"}

GMatrix_toVector(m) ==
  [k \in 0..(m.rows * m.cols - 1) |-> m.d[k \div m.cols][k % m.cols]]

\* GMatrix::fromVector(pVector, nRows): the matrix becomes nRows rows of
\* cols() elements, read from pos on.
GMatrix_fromVector(m, vec, pos, nRows, u) ==
  [rows |-> nRows, cols |-> m.cols,
   d |-> [i \in 0..(nRows - 1) |-> [j \in 0..(m.cols - 1) |-> At(vec, pos + i * m.cols + j, u)]]]

\* memcpy of n elements from the start of v.
Prefix(v, n, u) == [k \in 0..(n - 1) |-> At(v, k, u)]

Concat(a, b) ==
  [k \in 0..(Size(a) + Size(b) - 1) |-> IF k < Size(a) THEN a[k] ELSE b[k - Size(a)]]

\* What a call moved: the elements it wrote (from the start of the buffer)
\* and the number it returned.
Moved(written, ret) == [written |-> written, ret |-> ret]

GLayerLinear_weightsToVector(l) ==
  Moved(GMatrix_toVector(l.m_weights), CountWeights(l))

GLayerMaxOut_weightsToVector(l) ==
  Moved(Concat(Prefix(GLayerMaxOut_bias(l), GLayerMaxOut_inputs(l), 0),
               GMatrix_toVector(l.m_weights)),
        SizeT(GLayerMaxOut_inputs(l) * (GLayerMaxOut_outputs(l) + 1)))

GLayerRBM_weightsToVector(l) ==
  Moved(Concat(Prefix(GLayerRBM_bias(l), GLayerRBM_outputs(l), 0),
               GMatrix_toVector(l.m_weights)),
        SizeT((GLayerRBM_inputs(l) + 1) * GLayerRBM_outputs(l)))

GLayerConvolutional1D_weightsToVector(l) ==
  Moved(Concat(Prefix(l.m_bias, l.m_kernels.rows, 0), GMatrix_toVector(l.m_kernels)),
        SizeT((l.m_kernels.rows + 1) * l.m_kernels.cols))

GLayerConvolutional2D_weightsToVector(l) ==
  Moved(Concat(GMatrix_toVector(l.m_kernels), VecPut(Vec(l.m_kernels.rows, 0), 0, l.m_bias)),
        CountWeights(l))

\* virtual size_t weightsToVector(double* pOutVector)
WeightsToVector(l) ==
  CASE l.kind = "linear" -> GLayerLinear_weightsToVector(l)
    [] l.kind = "maxout" -> GLayerMaxOut_weightsToVector(l)
    [] l.kind = "rbm" -> GLayerRBM_weightsToVector(l)
    [] l.kind = "conv1d" -> GLayerConvolutional1D_weightsToVector(l)
    [] l.kind = "conv2d" -> GLayerConvolutional2D_weightsToVector(l)

\* What a call took: the layer after it, the elements it read and the number
\* it returned.
Taken(l, consumed, ret) == [l |-> l, consumed |-> consumed, ret |-> ret]

GLayerLinear_vectorToWeights(l, vec, u) ==
  Taken([l EXCEPT !.m_weights = GMatrix_fromVector(@, vec, 0, GLayerLinear_inputs(l) + 1, u)],
        (GLayerLinear_inputs(l) + 1) * l.m_weights.cols,
        CountWeights(l))

GLayerMaxOut_vectorToWeights(l, vec, u) ==
  LET in == GLayerMaxOut_inputs(l)
  IN Taken([l EXCEPT !.m_bias.d[0] = Prefix(vec, in, u),
                     !.m_weights = GMatrix_fromVector(@, vec, in, in, u)],
           in + in * l.m_weights.cols,
           SizeT(in * (GLayerMaxOut_outputs(l) + 1)))

\* fromVector is given inputs() for the number of rows of m_weights.
GLayerRBM_vectorToWeights(l, vec, u) ==
  LET in == GLayerRBM_inputs(l)
      out == GLayerRBM_outputs(l)
  IN Taken([l EXCEPT !.m_bias.d[0] = [k \in DOMAIN @ |-> IF k < out THEN At(vec, k, u) ELSE @[k]],
                     !.m_weights = GMatrix_fromVector(@, vec, out, in, u)],
           out + in * l.m_weights.cols,
           SizeT((in + 1) * out))

GLayerConvolutional1D_vectorToWeights(l, vec, u) ==
  LET rows == l.m_kernels.rows
  IN Taken([l EXCEPT !.m_bias = [k \in DOMAIN @ |-> IF k < rows THEN At(vec, k, u) ELSE @[k]],
                     !.m_kernels = GMatrix_fromVector(@, vec, rows, rows, u)],
           rows + rows * l.m_kernels.cols,
           SizeT((rows + 1) * l.m_kernels.cols))

GLayerConvolutional2D_vectorToWeights(l, vec, u) ==
  LET rows == l.m_kernels.rows
      cols == l.m_kernels.cols
  IN Taken([l EXCEPT !.m_kernels = GMatrix_fromVector(@, vec, 0, rows, u),
                     !.m_bias = VecPut(@, 0, [k \in 0..(rows - 1) |-> At(vec, rows * cols + k, u)])],
           rows * cols + rows,
           CountWeights(l))

\* virtual size_t vectorToWeights(const double* pVector)
VectorToWeights(l, vec, u) ==
  CASE l.kind = "linear" -> GLayerLinear_vectorToWeights(l, vec, u)
    [] l.kind = "maxout" -> GLayerMaxOut_vectorToWeights(l, vec, u)
    [] l.kind = "rbm" -> GLayerRBM_vectorToWeights(l, vec, u)
    [] l.kind = "conv1d" -> GLayerConvolutional1D_vectorToWeights(l, vec, u)
    [] l.kind = "conv2d" -> GLayerConvolutional2D_vectorToWeights(l, vec, u)

\* The weights and biases feedForward reads.
WeightsUsed(l) ==
  CASE l.kind = "linear" -> <<l.m_weights>>
    [] l.kind = "maxout" -> <<l.m_weights, GLayerMaxOut_bias(l)>>
    [] l.kind = "rbm" -> <<l.m_weights, GLayerRBM_bias(l)>>
    [] l.kind \in {"conv1d", "conv2d"} -> <<l.m_kernels, l.m_bias>>
    [] OTHER -> <<>>

VectorLayers(g) == {l \in TrainLayers(g) : l.kind \in Parameterized}

VectorObs(op) ==
  [op |-> op, ret |-> 0, moved |-> 0, count |-> 0, src |-> NoLayer, self |-> FALSE]

InitVector ==
  /\ layer = NoLayer
  /\ deltas = Vec(0, 0)
  /\ buffer = Vec(0, 0)
  /\ node = [pc |-> "none"]
  /\ net = Unused
  /\ last = VectorObs("none")

\* new GLayer...(...); resetWeights(rand)
VectorNew ==
  \E g \in GarbageVals :
    \E l \in VectorLayers(g) :
      /\ node.pc = "none"
      /\ layer' = ResetWeights(l, 0)
      /\ node' = [pc |-> "new"]
      /\ last' = VectorObs("construct")
      /\ UNCHANGED <<deltas, buffer, net>>

\* double* pOutVector = new double[countWeights()]; weightsToVector(pOutVector).
\* What is written past the end of the buffer is not in it.
VectorWeightsToVector ==
  \E g \in GarbageVals :
    LET r == WeightsToVector(layer)
    IN /\ node.pc = "new"
       /\ buffer' = [k \in 0..(CountWeights(layer) - 1) |-> At(r.written, k, g)]
       /\ node' = [pc |-> "written"]
       /\ last' = [VectorObs("weightsToVector")
                     EXCEPT !.ret = r.ret, !.moved = Size(r.written),
                            !.count = CountWeights(layer), !.src = layer]
       /\ UNCHANGED <<layer, deltas, net>>

\* vectorToWeights(buffer) on the layer itself or on another layer of the same
\* kind and shape, whose weights were reset by another generator.
VectorVectorToWeights ==
  \E self \in BOOLEAN, u \in GarbageVals :
    LET target == IF self THEN layer ELSE ResetWeights(layer, 1)
        r == VectorToWeights(target, buffer, u)
    IN /\ node.pc = "written"
       /\ layer' = r.l
       /\ node' = [pc |-> "read"]
       /\ last' = [VectorObs("vectorToWeights")
                     EXCEPT !.ret = r.ret, !.moved = r.consumed,
                            !.count = CountWeights(target), !.src = layer, !.self = self]
       /\ UNCHANGED <<deltas, buffer, net>>

VectorDelete ==
  /\ node.pc # "none"
  /\ layer' = NoLayer
  /\ buffer' = Vec(0, 0)
  /\ node' = [pc |-> "none"]
  /\ last' = VectorObs("none")
  /\ UNCHANGED <<deltas, net>>

NextVector ==
  VectorNew \/ VectorWeightsToVector \/ VectorVectorToWeights \/ VectorDelete

SpecVector == InitVector /\ [][NextVector]_vars

\* C5: weightsToVector followed by vectorToWeights round-trips: the layer that
\* read the buffer has every weight and bias feedForward uses equal to those
\* of the layer that wrote it, and the writer itself is left as it was.
C5_WeightsRoundTrip ==
  last.op = "vectorToWeights" =>
    /\ WeightsUsed(layer) = WeightsUsed(last.src)
    /\ last.self => layer = last.src

\* C6: weightsToVector and vectorToWeights return the number of elements
\* they wrote or read, and that number is countWeights().
C6_ReturnedCountIsMoved ==
  last.op \in {"weightsToVector", "vectorToWeights"} =>
    (last.ret = last.count /\ last.moved = last.ret)

\* ============================================== serialization (SpecSerialize)
\* serialize makes a DOM node of a layer; GNeuralNetLayer::deserialize makes a
\* layer of a DOM node.

\* GVec::serialize and GVec::deserialize: a DOM list of the elements.
GVec_serialize(v) == [i \in 1..Size(v) |-> v[i - 1]]

GVec_deserialize(x) == [i \in 0..(Len(x) - 1) |-> x[i + 1]]

\* GMatrix::serialize and GMatrix(const GDomNode*): the number of columns and
\* a DOM list of the rows.
GMatrix_serialize(m) ==
  [cols |-> m.cols, pats |-> [i \in 1..m.rows |-> GVec_serialize(m.d[i - 1])]]

GMatrix_deserialize(x) ==
  [rows |-> Len(x.pats), cols |-> x.cols,
   d |-> [i \in 0..(Len(x.pats) - 1) |-> GVec_deserialize(x.pats[i + 1])]]

Node(n) == [ok |-> TRUE, node |-> n]

NoNode == [type |-> "none"]

NotImplemented == [ok |-> FALSE, node |-> NoNode]

GLayerLinear_serialize(l) ==
  Node([type |-> "layer_linear", weights |-> GMatrix_serialize(l.m_weights)])

GLayerActivation_serialize(l) ==
  Node([type |-> "layer_rectifier", size |-> l.m_activation.cols])

GLayerRBM_serialize(l) ==
  Node([type |-> "layer_restrictedboltzmannmachine",
        weights |-> GMatrix_serialize(l.m_weights),
        bias |-> GVec_serialize(GLayerRBM_bias(l)),
        biasRev |-> GVec_serialize(l.m_biasReverse.d[0])])

GLayerConvolutional1D_serialize(l) ==
  Node([type |-> "layer_convolutional1d",
        isam |-> l.m_inputSamples, ichan |-> l.m_inputChannels,
        osam |-> l.m_outputSamples, kpc |-> l.m_kernelsPerChannel,
        kern |-> GMatrix_serialize(l.m_kernels),
        act |-> GMatrix_serialize(l.m_activation),
        bias |-> GVec_serialize(l.m_bias)])

GLayerConvolutional2D_serialize(l) ==
  Node([type |-> "layer_convolutional2d",
        width |-> l.m_width, height |-> l.m_height, channels |-> l.m_channels,
        kWidth |-> l.m_kWidth, kHeight |-> l.m_kHeight,
        strideX |-> l.m_inputImage.sx, strideY |-> l.m_inputImage.sy,
        paddingX |-> l.m_inputImage.px, paddingY |-> l.m_inputImage.py,
        outputWidth |-> l.m_outputWidth, outputHeight |-> l.m_outputHeight,
        inputInterlaced |-> l.m_inputImage.interlaced,
        kernelsInterlaced |-> l.m_kernelImage.interlaced,
        outputInterlaced |-> l.m_actImage.interlaced,
        bias |-> GVec_serialize(l.m_bias),
        kernels |-> GMatrix_serialize(l.m_kernels)])

GMaxPooling2D_serialize(l) ==
  Node([type |-> "layer_maxpooling",
        icol |-> l.m_inputCols, irow |-> l.m_inputRows,
        ichan |-> l.m_inputChannels, size |-> l.m_regionSize])

\* virtual GDomNode* serialize(GDom* pDoc): the pooling layers and
\* GLayerMaxOut throw.
Serialize(l) ==
  CASE l.kind = "linear" -> GLayerLinear_serialize(l)
    [] l.kind = "activation" -> GLayerActivation_serialize(l)
    [] l.kind \in {"productpooling", "additionpooling", "maxout"} -> NotImplemented
    [] l.kind = "rbm" -> GLayerRBM_serialize(l)
    [] l.kind = "conv1d" -> GLayerConvolutional1D_serialize(l)
    [] l.kind = "conv2d" -> GLayerConvolutional2D_serialize(l)
    [] l.kind = "maxpooling" -> GMaxPooling2D_serialize(l)

\* GLayerLinear(GDomNode* pNode)
GLayerLinear_fromNode(n, g) ==
  [kind |-> "linear", m_weights |-> GMatrix_deserialize(n.weights),
   m_activation |-> GMatrix(2, GMatrix_deserialize(n.weights).cols, g)]

\* GLayerActivation(GDomNode* pNode)
GLayerActivation_fromNode(n, g) ==
  [kind |-> "activation", m_activation |-> GMatrix(2, n.size, g)]

\* GLayerRestrictedBoltzmannMachine(GDomNode* pNode)
GLayerRBM_fromNode(n, g) ==
  LET w == GMatrix_deserialize(n.weights)
  IN [kind |-> "rbm", m_weights |-> w,
      m_bias |-> SetRow(GMatrix(3, w.rows, g), 0, GVec_deserialize(n.bias)),
      m_biasReverse |-> SetRow(GMatrix(3, w.cols, g), 0, GVec_deserialize(n.biasRev))]

\* GLayerConvolutional1D(GDomNode* pNode)
GLayerConvolutional1D_fromNode(n) ==
  [kind |-> "conv1d",
   m_inputSamples |-> n.isam, m_inputChannels |-> n.ichan,
   m_outputSamples |-> n.osam, m_kernelsPerChannel |-> n.kpc,
   m_kernels |-> GMatrix_deserialize(n.kern),
   m_activation |-> GMatrix_deserialize(n.act),
   m_bias |-> GVec_deserialize(n.bias)]

\* GLayerConvolutional2D(GDomNode* pNode)
GLayerConvolutional2D_fromNode(n, g) ==
  LET k == GMatrix_deserialize(n.kernels)
      in == [Image(n.width, n.height, n.channels)
               EXCEPT !.sx = n.strideX, !.sy = n.strideY,
                      !.px = n.paddingX, !.py = n.paddingY,
                      !.interlaced = n.inputInterlaced]
  IN [kind |-> "conv2d",
      m_width |-> n.width, m_height |-> n.height, m_channels |-> n.channels,
      m_kWidth |-> n.kWidth, m_kHeight |-> n.kHeight,
      m_outputWidth |-> n.outputWidth, m_outputHeight |-> n.outputHeight,
      m_bias |-> GVec_deserialize(n.bias),
      m_kernels |-> k,
      m_activation |-> GMatrix(2, SizeT(SizeT(n.outputWidth * n.outputHeight) * k.rows), g),
      m_kernelImage |-> [Image(n.kWidth, n.kHeight, n.channels)
                           EXCEPT !.interlaced = n.kernelsInterlaced],
      m_deltaImage |-> [Image(n.kWidth, n.kHeight, n.channels)
                          EXCEPT !.interlaced = n.kernelsInterlaced],
      m_inputImage |-> in,
      m_upStreamErrorImage |-> [Image(n.width, n.height, n.channels)
                                  EXCEPT !.interlaced = n.inputInterlaced],
      m_actImage |-> [Image(n.outputWidth, n.outputHeight, k.rows)
                        EXCEPT !.interlaced = n.outputInterlaced],
      m_errImage |-> [Image(n.outputWidth, n.outputHeight, k.rows)
                        EXCEPT !.interlaced = n.outputInterlaced]]

\* static GNeuralNetLayer* deserialize(GDomNode* pNode): the switch has a case
\* for the activation functions, layer_linear,
\* layer_restrictedboltzmannmachine, layer_convolutional1d and
\* layer_convolutional2d; every other type throws.
GNeuralNetLayer_deserialize(n, g) ==
  CASE n.type = "layer_rectifier" -> Ok(GLayerActivation_fromNode(n, g))
    [] n.type = "layer_linear" -> Ok(GLayerLinear_fromNode(n, g))
    [] n.type = "layer_restrictedboltzmannmachine" -> Ok(GLayerRBM_fromNode(n, g))
    [] n.type = "layer_convolutional1d" -> Ok(GLayerConvolutional1D_fromNode(n))
    [] n.type = "layer_convolutional2d" -> Ok(GLayerConvolutional2D_fromNode(n, g))
    [] OTHER -> Throw(NoLayer)

\* Every kind that can be constructed.
SerializeLayers(g) ==
  TrainLayers(g)
    \cup {c.l : c \in {x \in {GMaxPooling2D(2 * n, 2 * n, ch, 2, r, g) :
                                  n \in Dims, ch \in Dims, r \in GarbageVals} : x.ok}}

SerializeObs(op, ok) == [op |-> op, ok |-> ok, src |-> NoLayer]

InitSerialize ==
  /\ layer = NoLayer
  /\ deltas = Vec(0, 0)
  /\ buffer = NoNode
  /\ node = [pc |-> "none"]
  /\ net = Unused
  /\ last = SerializeObs("none", TRUE)

SerializeNew ==
  \E g \in GarbageVals :
    \E l \in SerializeLayers(g) :
      /\ node.pc = "none"
      /\ layer' = ResetWeights(l, 0)
      /\ node' = [pc |-> "new"]
      /\ last' = SerializeObs("construct", TRUE)
      /\ UNCHANGED <<deltas, buffer, net>>

SerializeSerialize ==
  /\ node.pc = "new"
  /\ buffer' = Serialize(layer).node
  /\ node' = [pc |-> IF Serialize(layer).ok THEN "serialized" ELSE "failed"]
  /\ last' = SerializeObs("serialize", Serialize(layer).ok)
  /\ UNCHANGED <<layer, deltas, net>>

\* GNeuralNetLayer::deserialize(node); the layer it gives takes the place of
\* the one that was serialized.
SerializeDeserialize ==
  \E g \in GarbageVals :
    LET r == GNeuralNetLayer_deserialize(buffer, g)
    IN /\ node.pc = "serialized"
       /\ layer' = r.l
       /\ node' = [pc |-> "deserialized"]
       /\ last' = [SerializeObs("deserialize", r.ok) EXCEPT !.src = layer]
       /\ UNCHANGED <<deltas, buffer, net>>

SerializeDelete ==
  /\ node.pc # "none"
  /\ layer' = NoLayer
  /\ buffer' = NoNode
  /\ node' = [pc |-> "none"]
  /\ last' = SerializeObs("none", TRUE)
  /\ UNCHANGED <<deltas, net>>

NextSerialize ==
  SerializeNew \/ SerializeSerialize \/ SerializeDeserialize \/ SerializeDelete

SpecSerialize == InitSerialize /\ [][NextSerialize]_vars

\* C7: for every layer that can be constructed, serialize returns a node and
\* deserialize of that node returns a layer of the same kind with the same
\* inputs(), outputs() and weights.
C7_SerializeRoundTrip ==
  /\ last.op = "serialize" => last.ok
  /\ last.op = "deserialize" =>
       /\ last.ok
       /\ layer.kind = last.src.kind
       /\ Inputs(layer) = Inputs(last.src)
       /\ Outputs(layer) = Outputs(last.src)
       /\ WeightsUsed(layer) = WeightsUsed(last.src)

\* ============================================ refused resizes (SpecResize)
\* A pooling layer or a Convolutional2D is constructed, then resize and
\* resizeInputs are called on it with sizes and upstream layers of every
\* sort; the caller keeps the arguments of the call and the layer as it was
\* before it.

PoolingKinds == {"productpooling", "additionpooling"}

\* The call, its arguments (sizes i and o, the kind of the upstream layer),
\* whether it returned, and the layer before it.
ResizeObs(op, kind, i, o, up, ok, pre) ==
  [op |-> op, kind |-> kind, i |-> i, o |-> o, up |-> up, ok |-> ok, pre |-> pre]

InitResize ==
  /\ layer = NoLayer
  /\ deltas = Vec(0, 0)
  /\ buffer = Vec(0, 0)
  /\ node = Unused
  /\ net = Unused
  /\ last = ResizeObs("none", "none", 0, 0, "none", TRUE, NoLayer)

ResizeNewPooling ==
  \E kind \in PoolingKinds, inps \in 0..(2 * MaxSize + 1), g \in GarbageVals :
    LET r == GLayerPooling(kind, inps, g)
    IN /\ layer = NoLayer
       /\ layer' = Constructed(r)
       /\ last' = ResizeObs("construct", kind, inps, 0, "none", r.ok, NoLayer)
       /\ UNCHANGED <<deltas, buffer, node, net>>

ResizeNewConv2D ==
  \E w \in Dims, c \in Dims, kw \in Dims, k \in 0..MaxKernels, g \in GarbageVals :
    LET r == GLayerConvolutional2D(w, w, c, kw, kw, k, g)
    IN /\ layer = NoLayer
       /\ kw <= w
       /\ layer' = Constructed(r)
       /\ last' = ResizeObs("construct", "conv2d", 0, 0, "none", r.ok, NoLayer)
       /\ UNCHANGED <<deltas, buffer, node, net>>

ResizeResize ==
  \E i \in 0..(2 * MaxSize + 1), o \in 0..(MaxSize + 1), g \in GarbageVals :
    LET r == Resize(layer, i, o, g)
    IN /\ layer # NoLayer
       /\ layer' = r.l
       /\ last' = ResizeObs("resize", layer.kind, i, o, "none", r.ok, layer)
       /\ UNCHANGED <<deltas, buffer, node, net>>

ResizeResizeInputs ==
  \E upstream \in Upstreams, g \in GarbageVals :
    LET r == ResizeInputs(layer, upstream, g)
    IN /\ layer # NoLayer
       /\ layer' = r.l
       /\ last' = ResizeObs("resizeInputs", layer.kind, 0, 0, upstream.kind, r.ok, layer)
       /\ UNCHANGED <<deltas, buffer, node, net>>

ResizeDelete ==
  /\ layer # NoLayer
  /\ layer' = NoLayer
  /\ last' = ResizeObs("none", "none", 0, 0, "none", TRUE, NoLayer)
  /\ UNCHANGED <<deltas, buffer, node, net>>

NextResize ==
  \/ ResizeNewPooling \/ ResizeNewConv2D \/ ResizeResize \/ ResizeResizeInputs
  \/ ResizeDelete

SpecResize == InitResize /\ [][NextResize]_vars

C16_Conv2DResizeRefused ==
  /\ (last.op = "resize" /\ last.kind = "conv2d") =>
       /\ last.ok <=> (last.i = Inputs(last.pre) /\ last.o = Outputs(last.pre))
       /\ layer = last.pre
  /\ (last.op = "resizeInputs" /\ last.kind = "conv2d") =>
       /\ last.ok <=> last.up = "conv2d"
       /\ ~last.ok => layer = last.pre

\* A Convolutional2D with kernels has refused a resize to sizes other than
\* its own, or a resizeInputs from a layer that is not a Convolutional2D.
C16_Witness ==
  /\ last.kind = "conv2d" /\ ~last.ok /\ layer = last.pre
  /\ layer.m_kernels.rows > 0
  /\ \/ last.op = "resize" /\ last.i # Inputs(layer)
     \/ last.op = "resizeInputs" /\ last.up = "linear"

\* ================================================ propagation (SpecProp)
\* A layer stands below an upstream layer.  The upstream layer is known to
\* the layer only through activation() and error(), two buffers of
\* outputs() elements each; the layer is fed the upstream activation and
\* writes the upstream error in backPropError.

\* The upstream layer: its activation(), its error(), and the places past the
\* end of error() that were written (a store through operator[] is not
\* checked, it lands in the memory that follows the buffer).
Upstream(act, err) == [act |-> act, err |-> err, past |-> {}]

\* upStreamError[i] = v
Store(up, i, v) ==
  IF i \in DOMAIN up.err
  THEN [up EXCEPT !.err[i] = v]
  ELSE [up EXCEPT !.past = @ \cup {i}]

\* A call's result: whether it returned, the layer and the upstream layer.
Back(ok, l, up) == [ok |-> ok, l |-> l, up |-> up]

\* GVec::dotProduct
dotProduct(a, b, u) == SumOver(DOMAIN a, [j \in DOMAIN a |-> a[j] * At(b, j, u)])

\* A backPropError that adds to what the upstream error held.
GLayerLinear_backPropError_accumulates(l, up, u) ==
  LET inputCount == Size(up.act)
      e == [i \in DOMAIN up.err |->
              IF i < inputCount
              THEN up.err[i] + dotProduct(Error(l), At(l.m_weights.d, i, <<>>), u)
              ELSE up.err[i]]
  IN Back(TRUE, l, [up EXCEPT !.err = e])

\* upStreamError[i] = error().dotProduct(m_weights[i]) for every unit of the
\* upstream layer.
GLayerLinear_backPropError(l, up, u) ==
  LET inputCount == Size(up.act)
      e == [i \in DOMAIN up.err |->
              IF i < inputCount
              THEN dotProduct(Error(l), At(l.m_weights.d, i, <<>>), u)
              ELSE up.err[i]]
  IN Back(TRUE, l, [up EXCEPT !.err = e])

\* GLayerRectifier::derivative
derivative(x, f_x) == IF x >= 0 THEN 1 ELSE 0

\* upStreamError[i] = error()[i] * derivative(n[i], a[i])
GLayerActivation_backPropError(l, up, u) ==
  LET inputCount == Size(up.act)
      e == [i \in DOMAIN up.err |->
              IF i < inputCount
              THEN At(Error(l), i, u) * derivative(up.act[i], At(Activation(l), i, u))
              ELSE up.err[i]]
  IN Back(TRUE, l, [up EXCEPT !.err = e])

\* GLayerProductPooling::backPropError and GLayerAdditionPooling::
\* backPropError: each upstream unit of a pair gets the error of the pair
\* times (or plus) the activation of its sibling.
GLayerPooling_backPropError(l, up, u) ==
  LET RECURSIVE Pair(_, _)
      op(a, b) == IF l.kind = "productpooling" THEN a * b ELSE a + b
      Pair(i, w) ==
        IF i >= GLayerPooling_outputs(l) THEN w
        ELSE Pair(i + 1,
                  Store(Store(w, 2 * i, op(Error(l)[i], At(w.act, 2 * i + 1, u))),
                        2 * i + 1, op(Error(l)[i], At(w.act, 2 * i, u))))
  IN Back(TRUE, l, Pair(0, up))

\* A backPropError that does not clear the upstream error first.
GLayerMaxOut_backPropError_noFill(l, up, u) ==
  LET RECURSIVE Out(_, _)
      Out(i, w) ==
        IF i >= GLayerMaxOut_outputs(l) THEN w
        ELSE LET x == l.m_winners[i]
             IN Out(i + 1, Store(w, x, At(w.err, x, u) + l.m_weights.d[x][i] * Error(l)[i]))
  IN Back(TRUE, l, Out(0, up))

\* upStreamError.fill(0.0); then every output adds its error, weighted, to
\* the input that won it.
GLayerMaxOut_backPropError(l, up, u) ==
  LET RECURSIVE Out(_, _)
      Out(i, w) ==
        IF i >= GLayerMaxOut_outputs(l) THEN w
        ELSE LET x == l.m_winners[i]
             IN Out(i + 1, Store(w, x, At(w.err, x, u) + l.m_weights.d[x][i] * Error(l)[i]))
  IN Back(TRUE, l, Out(0, [up EXCEPT !.err = VecFill(@, 0)]))

\* GMatrix::multiply(vectorIn, vectorOut, transpose = true):
\* vectorOut[j] = sum over the rows i of vectorIn[i] * row(i)[j].
GMatrix_multiplyTranspose(m, vectorIn, vectorOut, u) ==
  [j \in DOMAIN vectorOut |->
     IF j < m.cols
     THEN SumOver(0..(m.rows - 1), [i \in 0..(m.rows - 1) |-> At(vectorIn, i, u) * m.d[i][j]])
     ELSE vectorOut[j]]

GLayerRBM_backPropError(l, up, u) ==
  Back(TRUE, l, [up EXCEPT !.err = GMatrix_multiplyTranspose(l.m_weights, Error(l), @, u)])

\* upStreamErr.fill(0.0); then every tap of every kernel adds its share to
\* the input sample it read.
GLayerConvolutional1D_backPropError(l, up, u) ==
  LET C == l.m_inputChannels
      P == l.m_kernelsPerChannel
      K == l.m_kernels.cols
      taps == {t \in (0..(l.m_outputSamples - 1)) \X (0..(C - 1)) \X (0..(P - 1)) \X (0..(K - 1)) : TRUE}
      pos(t) == (t[1] * C + t[2]) + t[4] * C
      val(t) == l.m_kernels.d[t[2] * P + t[3]][t[4]] * At(Error(l), (t[1] * C + t[2]) * P + t[3], u)
      e == [x \in DOMAIN up.err |->
              SumOver({t \in taps : pos(t) = x}, [t \in taps |-> val(t)])]
      over == {pos(t) : t \in taps} \ DOMAIN up.err
  IN Back(TRUE, l, [up EXCEPT !.err = e, !.past = @ \cup over])

\* convolve(in, filter, out, channels) with the channel count given by the
\* caller.
convolveChannels(in, inData, filter, filterData, out, outData, channels, u) ==
  IF \E c \in Pixels(out) : Image_index(out, out.px + c[1], out.py + c[2], 0) = npos
  THEN [ok |-> FALSE, data |-> outData]
  ELSE LET sum == [c \in Pixels(out) |->
                     filterSum([in EXCEPT !.dx = out.px + c[1], !.dy = out.py + c[2]],
                               inData, filter, filterData, channels, u)]
       IN [ok |-> TRUE,
           data |-> [i \in DOMAIN outData |->
                       outData[i]
                         + SumOver({c \in Pixels(out) :
                                      Image_index(out, out.px + c[1], out.py + c[2], 0) = i},
                                   sum)]]

\* convolveFull(in, filter, out, channels): the input is padded by the size
\* of the filter for the time of the convolution.
convolveFull(in, inData, filter, filterData, out, outData, channels, u) ==
  convolveChannels([in EXCEPT !.px = SizeT(in.px + filter.width - 1) \div in.sx,
                              !.py = SizeT(in.py + filter.height - 1) \div in.sy],
                   inData, filter, filterData, out, outData, channels, u)

\* GLayerConvolutional2D::backPropError: the upstream error is zeroed, then
\* for every input channel and every output channel the error image is
\* convolved in full with the flipped kernel of that pair.  The images are
\* put back as they were at the end; an at() that throws leaves them as they
\* are at that point.
GLayerConvolutional2D_backPropError(l, up, u) ==
  LET upErr == [l.m_upStreamErrorImage EXCEPT !.px = l.m_inputImage.px,
                                               !.py = l.m_inputImage.py]
      err == [l.m_errImage EXCEPT !.invertStride = TRUE,
                                  !.sx = l.m_inputImage.sx, !.sy = l.m_inputImage.sy]
      ec == err.channels
      RECURSIVE Pass(_, _)
      Pass(n, data) ==
        IF n >= upErr.channels * ec THEN [ok |-> TRUE, data |-> data, n |-> n]
        ELSE LET uz == n \div ec
                 ez == n % ec
                 r == convolveFull([err EXCEPT !.dz = ez], Error(l),
                                   [l.m_kernelImage EXCEPT !.flip = TRUE, !.dz = uz],
                                   l.m_kernels.d[ez],
                                   [upErr EXCEPT !.dz = uz], data, 1, u)
             IN IF r.ok THEN Pass(n + 1, r.data) ELSE [ok |-> FALSE, data |-> data, n |-> n]
      p == Pass(0, VecFill(up.err, 0))
  IN IF p.ok
     THEN Back(TRUE,
               [l EXCEPT !.m_errImage = [err EXCEPT !.sx = 1, !.sy = 1,
                                                    !.invertStride = FALSE, !.dz = 0],
                         !.m_upStreamErrorImage = [upErr EXCEPT !.dz = 0, !.px = 0, !.py = 0],
                         !.m_kernelImage = [@ EXCEPT !.flip = FALSE, !.dz = 0]],
               [up EXCEPT !.err = p.data])
     ELSE Back(FALSE,
               [l EXCEPT !.m_errImage = [err EXCEPT !.dz = p.n % ec],
                         !.m_upStreamErrorImage = [upErr EXCEPT !.dz = p.n \div ec],
                         !.m_kernelImage = [@ EXCEPT !.flip = TRUE, !.dz = p.n \div ec]],
               [up EXCEPT !.err = p.data])

\* ---- GMaxPooling2D

\* double m = -1e100: below every value the model feeds.
MinusHuge == -1000

\* The largest element of a set of numbers.
MaxOf(S) == CHOOSE m \in S : \A s \in S : s <= m

\* How many times a loop "for(v = 0; v < limit; v += step)" runs.
Trips(limit, step) == (limit + step - 1) \div step

\* The input positions the inner loops of feedForward and backPropError
\* visit for the block at (xx, yy) and channel c.  Every pass of the y loop
\* computes xStart from yStart, so each pass visits the first row of the
\* block; xEnd adds c once more than xStart does.
Visited(l, yy, xx, c) ==
  LET yStep == l.m_inputCols * l.m_inputChannels
      yStart == yy * yStep
      xStart == yStart + xx * l.m_inputChannels + c
      xEnd == xStart + l.m_regionSize * l.m_inputChannels + c
  IN {x \in xStart..(xEnd - 1) : (x - xStart) % l.m_inputChannels = 0}

\* The blocks in the order of the loops (yy, then xx, then c), numbered by
\* actPos.
BlockCount(l) ==
  Trips(l.m_inputRows, l.m_regionSize) * Trips(l.m_inputCols, l.m_regionSize) * l.m_inputChannels

BlockVisited(l, p) ==
  LET c == p % l.m_inputChannels
      b == p \div l.m_inputChannels
      nbx == Trips(l.m_inputCols, l.m_regionSize)
  IN Visited(l, (b \div nbx) * l.m_regionSize, (b % nbx) * l.m_regionSize, c)

\* GMaxPooling2D::feedForward: a[actPos++] = m, m the largest of -1e100 and
\* the input values visited.  The size of in is not looked at.
GMaxPooling2D_feedForward(l, in, u) ==
  LET a == [p \in DOMAIN l.m_activation.d[0] |->
              IF p < BlockCount(l)
              THEN MaxOf({MinusHuge} \cup {At(in, x, u) : x \in BlockVisited(l, p)})
              ELSE l.m_activation.d[0][p]]
  IN Ok([l EXCEPT !.m_activation = SetRow(@, 0, a)])

\* GMaxPooling2D::backPropError: for each block the positions visited are
\* zeroed in the upstream error and the first of them that holds the largest
\* upstream activation (position 0 when none exceeds -1e100) gets the error
\* of the block.
GMaxPooling2D_backPropError(l, up, u) ==
  LET RECURSIVE Zero(_, _)
      Zero(X, w) ==
        IF X = {} THEN w
        ELSE LET x == CHOOSE x \in X : \A y \in X : x <= y
             IN Zero(X \ {x}, Store(w, x, 0))
      maxIndex(X) ==
        LET best == MaxOf({MinusHuge} \cup {At(up.act, x, u) : x \in X})
        IN IF best = MinusHuge THEN 0
           ELSE CHOOSE x \in X : /\ At(up.act, x, u) = best
                                 /\ \A y \in X : At(up.act, y, u) = best => x <= y
      RECURSIVE Block(_, _)
      Block(p, w) ==
        IF p >= BlockCount(l) THEN w
        ELSE Block(p + 1,
                   Store(Zero(BlockVisited(l, p), w),
                         maxIndex(BlockVisited(l, p)), At(Error(l), p, u)))
  IN Back(TRUE, l, Block(0, up))

\* virtual void backPropError(GNeuralNetLayer* pUpStreamLayer)
BackPropError(l, up, u) ==
  CASE l.kind = "linear" -> GLayerLinear_backPropError(l, up, u)
    [] l.kind = "activation" -> GLayerActivation_backPropError(l, up, u)
    [] l.kind \in {"productpooling", "additionpooling"} -> GLayerPooling_backPropError(l, up, u)
    [] l.kind = "maxout" -> GLayerMaxOut_backPropError(l, up, u)
    [] l.kind = "rbm" -> GLayerRBM_backPropError(l, up, u)
    [] l.kind = "conv1d" -> GLayerConvolutional1D_backPropError(l, up, u)
    [] l.kind = "conv2d" -> GLayerConvolutional2D_backPropError(l, up, u)
    [] l.kind = "maxpooling" -> GMaxPooling2D_backPropError(l, up, u)
    [] OTHER -> Back(FALSE, l, up)

\* feedForward of every kind, GMaxPooling2D included.
PropFeed(l, in, rnd, u) ==
  CASE l.kind = "maxpooling" -> GMaxPooling2D_feedForward(l, in, u)
    [] l.kind = "none" -> Throw(l)
    [] OTHER -> FeedForward(l, in, rnd, u)

\* ---- the run

\* No upstream layer yet.
NoUpstream == Upstream(Vec(0, 0), Vec(0, 0))

\* Where the run stands, and the constructor call that made the layer: the
\* kind and the arguments.
PropAt(pc, args) == [pc |-> pc, args |-> args]

\* The call, whether it returned, and the layer and the upstream layer as
\* they were before it.
PropObs(op, ok, pre, up) == [op |-> op, ok |-> ok, pre |-> pre, up |-> up]

InitProp ==
  /\ layer = NoLayer
  /\ deltas = Vec(0, 0)
  /\ buffer = Vec(0, 0)
  /\ node = NoUpstream
  /\ net = PropAt("none", <<"none">>)
  /\ last = PropObs("none", TRUE, NoLayer, NoUpstream)

\* new GLayerLinear, GLayerMaxOut, ... (every kind but the two below);
\* resetWeights(rand).
PropNew ==
  \E g \in GarbageVals, seed \in 0..1 :
    \E l \in {t \in TrainLayers(g) : t.kind # "conv1d"} :
      /\ net.pc = "none"
      /\ layer' = ResetWeights(l, seed)
      /\ net' = PropAt("new", <<l.kind>>)
      /\ last' = PropObs("construct", TRUE, NoLayer, NoUpstream)
      /\ UNCHANGED <<deltas, buffer, node>>

\* new GLayerConvolutional1D(S, C, K, P); resetWeights(rand).
PropNewConv1D ==
  \E S \in Dims, C \in Dims, K \in 1..(MaxSize + 1), P \in Dims,
     g \in GarbageVals, seed \in 0..1 :
    LET r == GLayerConvolutional1D(S, C, K, P, g)
    IN /\ net.pc = "none"
       /\ layer' = IF r.ok THEN ResetWeights(r.l, seed) ELSE NoLayer
       /\ net' = PropAt(IF r.ok THEN "new" ELSE "none", <<"conv1d", S, C, K, P>>)
       /\ last' = PropObs("construct", r.ok, NoLayer, NoUpstream)
       /\ UNCHANGED <<deltas, buffer, node>>

\* new GMaxPooling2D(cols, rows, channels, regionSize); m_regionSize holds
\* what the allocation held (r).
PropNewMaxPooling2D ==
  \E cols \in Dims, rows \in Dims, c \in Dims, rs \in Dims,
     r \in GarbageVals, g \in GarbageVals :
    LET n == GMaxPooling2D(cols, rows, c, rs, r, g)
    IN /\ net.pc = "none"
       /\ layer' = Constructed(n)
       /\ net' = PropAt(IF n.ok THEN "new" ELSE "none", <<"maxpooling", cols, rows, c, rs>>)
       /\ last' = PropObs("construct", n.ok, NoLayer, NoUpstream)
       /\ UNCHANGED <<deltas, buffer, node>>

\* The activations an upstream layer of n units holds: rising or falling.
Activations(n) ==
  {Ramp(n, x) : x \in 1..MaxVal} \cup {[i \in 0..(n - 1) |-> x + n - 1 - i] : x \in 1..MaxVal}

\* The upstream layer is built with as many units as the layer has inputs
\* and has been fed; its error buffer holds what its allocation held.
PropUpstream ==
  \E e \in GarbageVals :
    \E act \in Activations(IF layer = NoLayer THEN 0 ELSE Inputs(layer)) :
      /\ net.pc = "new"
      /\ node' = Upstream(act, Vec(Size(act), e))
      /\ net' = [net EXCEPT !.pc = "wired"]
      /\ last' = PropObs("upstream", TRUE, layer, node)
      /\ UNCHANGED <<layer, deltas, buffer>>

\* feedForward(upstream.activation())
PropFeedForward ==
  \E u \in GarbageVals :
    \E rnd \in Rnds(layer) :
      LET r == PropFeed(layer, node.act, rnd, u)
      IN /\ net.pc = "wired"
         /\ layer' = r.l
         /\ net' = [net EXCEPT !.pc = IF r.ok THEN "fed" ELSE "failed"]
         /\ last' = PropObs("feedForward", r.ok, layer, node)
         /\ UNCHANGED <<deltas, buffer, node>>

\* What lies downstream writes error().
PropSetError ==
  \E e \in 1..MaxVal :
    /\ net.pc = "fed"
    /\ layer' = IF layer.kind = "rbm"
                THEN [layer EXCEPT !.m_bias = SetRow(@, 2, Ramp(Size(Error(layer)), e))]
                ELSE [layer EXCEPT !.m_activation = SetRow(@, 1, Ramp(Size(Error(layer)), e))]
    /\ net' = [net EXCEPT !.pc = "err"]
    /\ last' = PropObs("setError", TRUE, layer, node)
    /\ UNCHANGED <<deltas, buffer, node>>

\* backPropError(upstream)
PropBackPropError ==
  \E u \in GarbageVals :
    LET r == BackPropError(layer, node, u)
    IN /\ net.pc = "err"
       /\ layer' = r.l
       /\ node' = r.up
       /\ net' = [net EXCEPT !.pc = "back"]
       /\ last' = PropObs("backPropError", r.ok, layer, node)
       /\ UNCHANGED <<deltas, buffer>>

\* Both layers are deleted.
PropDelete ==
  /\ net.pc # "none"
  /\ layer' = NoLayer
  /\ node' = NoUpstream
  /\ net' = PropAt("none", <<"none">>)
  /\ last' = PropObs("none", TRUE, NoLayer, NoUpstream)
  /\ UNCHANGED <<deltas, buffer>>

NextProp ==
  \/ PropNew \/ PropNewConv1D \/ PropNewMaxPooling2D \/ PropUpstream
  \/ PropFeedForward \/ PropSetError \/ PropBackPropError \/ PropDelete

SpecProp == InitProp /\ [][NextProp]_vars

\* The arguments of the constructor call GMaxPooling2D(cols, rows, channels,
\* regionSize).
PoolCols == net.args[2]

PoolRows == net.args[3]

PoolChannels == net.args[4]

PoolRegion == net.args[5]

\* The blocks of the input grid: block row, block column, channel.
PoolBlocks ==
  (0..(PoolRows \div PoolRegion - 1)) \X (0..(PoolCols \div PoolRegion - 1))
    \X (0..(PoolChannels - 1))

\* The place of a block in the output, in block-scan order.
PoolOut(b) == (b[1] * (PoolCols \div PoolRegion) + b[2]) * PoolChannels + b[3]

\* The input positions of a block: regionSize rows of regionSize columns.
PoolCells(b) ==
  {((b[1] * PoolRegion + dy) * PoolCols + b[2] * PoolRegion + dx) * PoolChannels + b[3] :
     dy \in 0..(PoolRegion - 1), dx \in 0..(PoolRegion - 1)}

\* C12: after GMaxPooling2D::feedForward the output of every block of
\* regionSize x regionSize cells of every channel is the largest of the
\* input values of that block and channel, the outputs standing in
\* block-scan order (block row, block column, channel).
C12_MaxPoolingBlockMax ==
  (last.op = "feedForward" /\ net.args[1] = "maxpooling") =>
    \A b \in PoolBlocks :
      /\ PoolOut(b) \in DOMAIN Activation(layer)
      /\ Activation(layer)[PoolOut(b)] = MaxOf({node.act[x] : x \in PoolCells(b)})

\* C13: after GMaxPooling2D::backPropError the upstream error at the
\* position that held the largest value of a block is the error of that
\* block, and the upstream error at every other position is zero, whatever
\* the upstream error held before.
C13_MaxPoolingWinnerTakesAll ==
  (last.op = "backPropError" /\ net.args[1] = "maxpooling") =>
    LET winner(b) == CHOOSE x \in PoolCells(b) :
                       node.act[x] = MaxOf({node.act[y] : y \in PoolCells(b)})
        winners == {winner(b) : b \in PoolBlocks}
    IN /\ \A b \in PoolBlocks :
            /\ PoolOut(b) \in DOMAIN Error(layer)
            /\ node.err[winner(b)] = Error(layer)[PoolOut(b)]
       /\ \A x \in DOMAIN node.err : x \notin winners => node.err[x] = 0

\* C19: backPropError(upstream) changes only upstream.error(): the upstream
\* activation, this layer's activation, error, weights and biases are after
\* the call what they were before it, and nothing is stored outside the
\* upstream error buffer.
C19_BackPropWritesUpstreamErrorOnly ==
  last.op = "backPropError" =>
    /\ node.act = last.up.act
    /\ node.past = {}
    /\ Activation(layer) = Activation(last.pre)
    /\ Error(layer) = Error(last.pre)
    /\ WeightsUsed(layer) = WeightsUsed(last.pre)
    /\ layer.kind = "rbm" => layer.m_biasReverse = last.pre.m_biasReverse

\* The arguments of the constructor call GLayerConvolutional1D(S, C, K, P).
ConvS == net.args[2]

ConvC == net.args[3]

ConvK == net.args[4]

ConvP == net.args[5]

\* C15: a GLayerConvolutional1D of S input samples, C channels, kernel size
\* K and P kernels per channel cannot be constructed with K > S; with K <= S
\* it has (S-K+1)*C*P outputs, and after feedForward(in) the activation of
\* output sample i, channel j, kernel k, at (i*C + j)*P + k, is the bias of
\* kernel j*P + k plus the sum over the taps l of kernel[j*P + k][l] *
\* in[(i + l)*C + j].
C15_Conv1DForward ==
  /\ (last.op = "construct" /\ net.args[1] = "conv1d") => (last.ok <=> ConvK <= ConvS)
  /\ (last.op = "feedForward" /\ net.args[1] = "conv1d") =>
       /\ Outputs(layer) = (ConvS - ConvK + 1) * ConvC * ConvP
       /\ Size(Activation(layer)) = Outputs(layer)
       /\ \A i \in 0..(ConvS - ConvK), j \in 0..(ConvC - 1), k \in 0..(ConvP - 1) :
            Activation(layer)[(i * ConvC + j) * ConvP + k] =
              layer.m_bias[j * ConvP + k]
                + SumOver(0..(ConvK - 1),
                          [t \in 0..(ConvK - 1) |->
                             layer.m_kernels.d[j * ConvP + k][t] * node.act[(i + t) * ConvC + j]])

\* A convolution of two channels with kernels of two taps has been fed.
C15_Witness ==
  /\ last.op = "feedForward" /\ last.ok
  /\ net.args = <<"conv1d", 2, 2, 2, 2>>
  /\ Size(Activation(layer)) = 4

\* C20: after GLayerLinear::feedForward(in) with in.size() = inputs(),
\* activation[j] = bias[j] + sum over the inputs i of in[i] * W[i][j] for
\* every output j, whatever activation() held before; the weights, the bias
\* and error() are what they were.
C20_LinearForward ==
  (last.op = "feedForward" /\ layer.kind = "linear" /\ Size(node.act) = Inputs(layer)) =>
    /\ \A j \in 0..(Outputs(layer) - 1) :
         Activation(layer)[j] =
           layer.m_weights.d[Inputs(layer)][j]
             + SumOver(0..(Inputs(layer) - 1),
                       [i \in 0..(Inputs(layer) - 1) |-> node.act[i] * layer.m_weights.d[i][j]])
    /\ layer.m_weights = last.pre.m_weights
    /\ Error(layer) = Error(last.pre)

\* A linear layer of two inputs and two outputs whose activation buffer held
\* something else than zeros has been fed.
C20_Witness ==
  /\ last.op = "feedForward" /\ last.ok /\ layer.kind = "linear"
  /\ Inputs(layer) = 2 /\ Outputs(layer) = 2
  /\ Activation(last.pre) = Vec(2, 1)
  /\ Activation(layer) # Activation(last.pre)

\* ============================================ two runs of a MaxOut (SpecTwin)
\* Two GLayerMaxOut are built alike, their weights reset from generators
\* seeded alike, and each is fed the same input once.  feedForward takes no
\* generator: it calls the C library's rand(), whose state belongs to the
\* process and is moved by every caller, so what rand() gives a call (rnd)
\* is not fixed by the seed.

TwinAt(pc, seed) == [pc |-> pc, seed |-> seed]

TwinObs(op) == [op |-> op]

InitTwin ==
  /\ layer = NoLayer
  /\ node = NoLayer
  /\ deltas = Vec(0, 0)
  /\ buffer = Vec(0, 0)
  /\ net = TwinAt("none", 0)
  /\ last = TwinObs("none")

\* Both runs: new GLayerMaxOut(in, out); resetWeights(rand), rand seeded
\* with seed.
TwinNew ==
  \E in \in Dims, out \in Dims, seed \in 0..(MaxWeight - 1), g \in GarbageVals :
    /\ net.pc = "none"
    /\ layer' = ResetWeights(GLayerMaxOut(in, out, g).l, seed)
    /\ node' = ResetWeights(GLayerMaxOut(in, out, g).l, seed)
    /\ net' = TwinAt("new", seed)
    /\ last' = TwinObs("construct")
    /\ UNCHANGED <<deltas, buffer>>

\* The first run: feedForward(in).
TwinFeedFirst ==
  \E x \in 1..MaxVal, u \in GarbageVals :
    \E rnd \in Rnds(layer) :
      /\ net.pc = "new"
      /\ buffer' = Ramp(GLayerMaxOut_inputs(layer), x)
      /\ layer' = GLayerMaxOut_feedForward(layer, Ramp(GLayerMaxOut_inputs(layer), x), rnd, u).l
      /\ net' = [net EXCEPT !.pc = "first"]
      /\ last' = TwinObs("feedForward")
      /\ UNCHANGED <<deltas, node>>

\* The second run: feedForward of the same input.
TwinFeedSecond ==
  \E u \in GarbageVals :
    \E rnd \in Rnds(node) :
      /\ net.pc = "first"
      /\ node' = GLayerMaxOut_feedForward(node, buffer, rnd, u).l
      /\ net' = [net EXCEPT !.pc = "both"]
      /\ last' = TwinObs("feedForward")
      /\ UNCHANGED <<layer, deltas, buffer>>

TwinDelete ==
  /\ net.pc # "none"
  /\ layer' = NoLayer
  /\ node' = NoLayer
  /\ buffer' = Vec(0, 0)
  /\ net' = TwinAt("none", 0)
  /\ last' = TwinObs("none")
  /\ UNCHANGED deltas

NextTwin == TwinNew \/ TwinFeedFirst \/ TwinFeedSecond \/ TwinDelete

SpecTwin == InitTwin /\ [][NextTwin]_vars

\* C14: GLayerMaxOut::feedForward is determined by the seed, the input and
\* the weights: two runs from the same seed with the same input and weights
\* end with the same activation() and the same winner indices.
C14_MaxOutDeterministic ==
  net.pc = "both" =>
    /\ Activation(layer) = Activation(node)
    /\ layer.m_winners = node.m_winners

\* ====================================== perturbWeights, maxNorm (SpecWeights)
\* One parameterized layer is constructed (its weights hold what the
\* allocation held until resetWeights draws them), perturbed over a range of
\* units, and normalised with maxNorm.

\* GVec::perturb(pVector, deviation, n, rand): pVector[t] += rand.normal() *
\* deviation for t < n.  v is the vector pVector points into, from the index
\* of pVector[0] in it, k the number of draws made before the call.
GVec_perturb(v, from, n, deviation, seed, k) ==
  [t \in DOMAIN v |->
     IF t >= from /\ t < from + n
     THEN v[t] + Draw(seed, k + (t - from)) * deviation
     ELSE v[t]]

\* std::min
Min(a, b) == IF a < b THEN a ELSE b

\* Every row of m_weights is perturbed from column start on, n columns.
GLayerLinear_perturbWeights(l, seed, deviation, start, count) ==
  LET n == Min(SizeT(GLayerLinear_outputs(l) - start), count)
  IN Ok([l EXCEPT !.m_weights.d =
           [j \in DOMAIN @ |-> GVec_perturb(@[j], start, n, deviation, seed, j * n)]])

\* As GLayerLinear, then the whole bias.
GLayerMaxOut_perturbWeights(l, seed, deviation, start, count) ==
  LET n == Min(SizeT(GLayerMaxOut_outputs(l) - start), count)
  IN Ok([l EXCEPT !.m_weights.d =
                    [j \in DOMAIN @ |-> GVec_perturb(@[j], start, n, deviation, seed, j * n)],
                  !.m_bias.d[0] =
                    GVec_perturb(@, 0, GLayerMaxOut_inputs(l), deviation, seed,
                                 l.m_weights.rows * n)])

\* for(size_t i = start; i < n; i++) perturbs row i; then n elements of the
\* bias from start on.
GLayerRBM_perturbWeights(l, seed, deviation, start, count) ==
  LET n == Min(SizeT(GLayerRBM_outputs(l) - start), count)
      rows == {i \in DOMAIN l.m_weights.d : i >= start /\ i < n}
  IN Ok([l EXCEPT !.m_weights.d =
                    [i \in DOMAIN @ |->
                       IF i \in rows
                       THEN GVec_perturb(@[i], 0, GLayerRBM_inputs(l), deviation, seed,
                                         (i - start) * GLayerRBM_inputs(l))
                       ELSE @[i]],
                  !.m_bias.d[0] =
                    GVec_perturb(@, start, n, deviation, seed,
                                 Cardinality(rows) * GLayerRBM_inputs(l))])

\* A sub-range is refused; otherwise every kernel and the bias are perturbed.
GLayerConvolutional1D_perturbWeights(l, seed, deviation, start, count) ==
  IF start # 0
  THEN Throw(l)
  ELSE Ok([l EXCEPT !.m_kernels.d =
                      [i \in DOMAIN @ |->
                         GVec_perturb(@[i], 0, l.m_kernels.cols, deviation, seed,
                                      i * l.m_kernels.cols)],
                    !.m_bias =
                      GVec_perturb(@, 0, l.m_kernels.rows, deviation, seed,
                                   l.m_kernels.rows * l.m_kernels.cols)])

\* for(size_t j = start; j < n; j++) perturbs kernel j; then the whole bias.
GLayerConvolutional2D_perturbWeights(l, seed, deviation, start, count) ==
  LET n == Min(SizeT(l.m_kernels.rows - start), count)
      rows == {j \in DOMAIN l.m_kernels.d : j >= start /\ j < n}
  IN Ok([l EXCEPT !.m_kernels.d =
                    [j \in DOMAIN @ |->
                       IF j \in rows
                       THEN GVec_perturb(@[j], 0, l.m_kernels.cols, deviation, seed,
                                         (j - start) * l.m_kernels.cols)
                       ELSE @[j]],
                  !.m_bias =
                    GVec_perturb(@, 0, l.m_kernels.rows, deviation, seed,
                                 Cardinality(rows) * l.m_kernels.cols)])

\* virtual void perturbWeights(GRand& rand, double deviation, size_t start,
\* size_t count)
PerturbWeights(l, seed, deviation, start, count) ==
  CASE l.kind = "linear" -> GLayerLinear_perturbWeights(l, seed, deviation, start, count)
    [] l.kind = "maxout" -> GLayerMaxOut_perturbWeights(l, seed, deviation, start, count)
    [] l.kind = "rbm" -> GLayerRBM_perturbWeights(l, seed, deviation, start, count)
    [] l.kind = "conv1d" -> GLayerConvolutional1D_perturbWeights(l, seed, deviation, start, count)
    [] l.kind = "conv2d" -> GLayerConvolutional2D_perturbWeights(l, seed, deviation, start, count)
    [] OTHER -> Throw(l)


\* --------------------------------------------------------------- maxNorm
\* maxNorm multiplies the weights of a unit by scal = bound / sqrt(squaredMag),
\* which is not an integer.  The weights of a unit after the call are the
\* integers of the matrix times sqrt(num / den), where [num, den] is the
\* square of scal for that unit; den = 0 is the division by sqrt(0.0), whose
\* quotient is inf (and 0.0 * inf is NaN).
Unscaled == [num |-> 1, den |-> 1]

Normed(ok, l, scale) == [ok |-> ok, l |-> l, scale |-> scale]

Sq(x) == x * x

RECURSIVE SumSq(_, _)
\* The sum of the squares of the first n elements of v.
SumSq(v, n) == IF n = 0 THEN 0 ELSE SumSq(v, n - 1) + Sq(v[n - 1])

\* GVec::squaredMagnitude()
squaredMagnitude(v) == SumSq(v, Size(v))

\* GVec::clip(min, max)
clip(v, lo, hi) ==
  [i \in DOMAIN v |-> IF v[i] < lo THEN lo ELSE IF v[i] > hi THEN hi ELSE v[i]]

\* Column i of the first n rows of m.
Column(m, i, n) == [j \in 0..(n - 1) |-> m.d[j][i]]

\* A column above max is scaled to max; a column below min is scaled to min,
\* after its elements are set to 1.0 when all of them are 0.
GLayerLinear_maxNorm(l, min, max) ==
  LET outputCount == GLayerLinear_outputs(l)
      inputCount == GLayerLinear_inputs(l)
      squaredMag(i) == squaredMagnitude(Column(l.m_weights, i, inputCount))
      ones == {i \in 0..(outputCount - 1) :
                 squaredMag(i) <= Sq(max) /\ squaredMag(i) < Sq(min) /\ squaredMag(i) = 0}
  IN Normed(TRUE,
            [l EXCEPT !.m_weights.d =
               [j \in DOMAIN @ |->
                  [i \in DOMAIN @[j] |-> IF j < inputCount /\ i \in ones THEN 1 ELSE @[j][i]]]],
            [i \in 0..(outputCount - 1) |->
               IF squaredMag(i) > Sq(max)
               THEN [num |-> Sq(max), den |-> squaredMag(i)]
               ELSE IF squaredMag(i) < Sq(min)
                    THEN [num |-> Sq(min),
                          den |-> IF i \in ones THEN inputCount ELSE squaredMag(i)]
                    ELSE Unscaled])

\* A row above max is scaled to max, a row below min is scaled to min.
GLayerRBM_maxNorm(l, min, max) ==
  LET outputCount == GLayerRBM_outputs(l)
      squaredMag(i) == squaredMagnitude(l.m_weights.d[i])
  IN Normed(TRUE, l,
            [i \in 0..(outputCount - 1) |->
               IF squaredMag(i) > Sq(max)
               THEN [num |-> Sq(max), den |-> squaredMag(i)]
               ELSE IF squaredMag(i) < Sq(min)
                    THEN [num |-> Sq(min), den |-> squaredMag(i)]
                    ELSE Unscaled])

\* Every element of every kernel is clipped to [-max, max].
GLayerConvolutional1D_maxNorm(l, min, max) ==
  Normed(TRUE,
         [l EXCEPT !.m_kernels.d = [i \in DOMAIN @ |-> clip(@[i], 0 - max, max)]],
         [i \in 0..(l.m_kernels.rows - 1) |-> Unscaled])

\* virtual void maxNorm(double min, double max): GLayerMaxOut and
\* GLayerConvolutional2D throw "not implemented".
MaxNorm(l, min, max) ==
  CASE l.kind = "linear" -> GLayerLinear_maxNorm(l, min, max)
    [] l.kind = "rbm" -> GLayerRBM_maxNorm(l, min, max)
    [] l.kind = "conv1d" -> GLayerConvolutional1D_maxNorm(l, min, max)
    [] OTHER -> Normed(FALSE, l, Vec(0, Unscaled))

\* The output units a range of perturbWeights or a norm of maxNorm is about:
\* the columns of m_weights (linear, maxout), its rows (rbm), the kernels.
Units(l) ==
  CASE l.kind \in {"linear", "maxout"} -> l.m_weights.cols
    [] l.kind = "rbm" -> l.m_weights.rows
    [] OTHER -> l.m_kernels.rows

\* The incoming weights of unit o, the bias excluded.
Incoming(l, o) ==
  CASE l.kind = "linear" -> Column(l.m_weights, o, GLayerLinear_inputs(l))
    [] l.kind = "maxout" -> Column(l.m_weights, o, GLayerMaxOut_inputs(l))
    [] l.kind = "rbm" -> l.m_weights.d[o]
    [] OTHER -> l.m_kernels.d[o]

\* The bias of the layer.
BiasOf(l) ==
  CASE l.kind = "linear" -> l.m_weights.d[l.m_weights.rows - 1]
    [] l.kind \in {"maxout", "rbm"} -> l.m_bias.d[0]
    [] OTHER -> l.m_bias

\* Largest deviation perturbWeights is called with.
MaxDeviation == 2

\* Largest max maxNorm is called with.
MaxNormBound == 2

WeightsAt(pc) == [pc |-> pc]

WeightsObs(op, ok, pre, a, b) == [op |-> op, ok |-> ok, pre |-> pre, a |-> a, b |-> b]

InitWeights ==
  /\ layer = NoLayer
  /\ deltas = Vec(0, 0)
  /\ buffer = Vec(0, 0)
  /\ node = NoUpstream
  /\ net = WeightsAt("none")
  /\ last = WeightsObs("none", TRUE, NoLayer, 0, 0)

\* new GLayer...(...) of a kind that has weights; the weights hold what the
\* allocation held.
WeightsNew ==
  \E g \in GarbageVals :
    \E l \in {x \in TrainLayers(g) : x.kind \in Parameterized} :
      /\ net.pc = "none"
      /\ layer' = l
      /\ net' = WeightsAt("new")
      /\ last' = WeightsObs("construct", TRUE, NoLayer, 0, 0)
      /\ UNCHANGED <<deltas, buffer, node>>

\* layer.resetWeights(rand)
WeightsResetWeights ==
  \E seed \in 0..(MaxWeight - 1) :
    /\ net.pc = "new"
    /\ layer' = ResetWeights(layer, seed)
    /\ net' = WeightsAt("reset")
    /\ last' = WeightsObs("resetWeights", TRUE, layer, 0, 0)
    /\ UNCHANGED <<deltas, buffer, node>>

\* layer.perturbWeights(rand, deviation, start, count), start < the number of
\* units.
WeightsPerturbWeights ==
  /\ net.pc \in {"new", "reset"}
  /\ \E seed \in 0..1 :
       \E deviation \in 1..MaxDeviation :
         \E start \in 0..(Units(layer) - 1) :
           \E count \in 1..(MaxSize + 1) :
             LET r == PerturbWeights(layer, seed, deviation, start, count)
             IN /\ layer' = r.l
                /\ net' = WeightsAt("perturbed")
                /\ last' = WeightsObs("perturbWeights", r.ok, layer, start, count)
                /\ UNCHANGED <<deltas, buffer, node>>

\* layer.maxNorm(min, max), 0 < min <= max.
WeightsMaxNorm ==
  \E max \in 1..MaxNormBound :
    \E min \in 1..max :
      LET r == MaxNorm(layer, min, max)
      IN /\ net.pc \in {"new", "reset", "perturbed"}
         /\ layer' = r.l
         /\ buffer' = r.scale
         /\ net' = WeightsAt("normed")
         /\ last' = WeightsObs("maxNorm", r.ok, layer, min, max)
         /\ UNCHANGED <<deltas, node>>

\* delete layer
WeightsDelete ==
  /\ net.pc # "none"
  /\ layer' = NoLayer
  /\ buffer' = Vec(0, 0)
  /\ net' = WeightsAt("none")
  /\ last' = WeightsObs("delete", TRUE, layer, 0, 0)
  /\ UNCHANGED <<deltas, node>>

NextWeights ==
  \/ WeightsNew
  \/ WeightsResetWeights
  \/ WeightsPerturbWeights
  \/ WeightsMaxNorm
  \/ WeightsDelete

SpecWeights == InitWeights /\ [][NextWeights]_vars

\* The units perturbWeights(rand, deviation, start, count) is asked to
\* perturb: [start, min(start + count, units)).
InRange(l, start, count, o) == o >= start /\ o < Min(start + count, Units(l))

\* C17: on a layer kind that takes a sub-range (linear, maxout, rbm, conv2d),
\* perturbWeights(rand, deviation, start, count) with start below the number
\* of units changes every incoming weight of every unit in
\* [start, min(start + count, units)) and leaves the incoming weights of
\* every other unit as they were.
C17_PerturbWeightsRange ==
  (last.op = "perturbWeights" /\ layer.kind \in {"linear", "maxout", "rbm", "conv2d"}) =>
    /\ last.ok
    /\ \A o \in 0..(Units(layer) - 1) :
         \A k \in DOMAIN Incoming(layer, o) :
           IF InRange(last.pre, last.a, last.b, o)
           THEN Incoming(layer, o)[k] # Incoming(last.pre, o)[k]
           ELSE Incoming(layer, o)[k] = Incoming(last.pre, o)[k]

\* The square of the norm of unit o lies in [min^2, max^2] and is finite.
NormWithin(l, scale, o, min, max) ==
  /\ scale[o].den > 0
  /\ Sq(min) * scale[o].den <= squaredMagnitude(Incoming(l, o)) * scale[o].num
  /\ squaredMagnitude(Incoming(l, o)) * scale[o].num <= Sq(max) * scale[o].den

\* C18: on a layer kind that implements maxNorm (linear, rbm, conv1d), after
\* maxNorm(min, max) with 0 < min <= max the incoming weights of every unit
\* have a squared norm in [min^2, max^2]; a unit whose weights were all zero
\* ends finite with norm min; a unit that was in range and every bias are
\* unchanged.
C18_MaxNormBounds ==
  (last.op = "maxNorm" /\ layer.kind \in {"linear", "rbm", "conv1d"}) =>
    /\ last.ok
    /\ BiasOf(layer) = BiasOf(last.pre)
    /\ \A o \in 0..(Units(layer) - 1) :
         LET was == squaredMagnitude(Incoming(last.pre, o))
         IN /\ NormWithin(layer, buffer, o, last.a, last.b)
            /\ was = 0 =>
                 squaredMagnitude(Incoming(layer, o)) * buffer[o].num
                   = Sq(last.a) * buffer[o].den
            /\ (Sq(last.a) <= was /\ was <= Sq(last.b)) =>
                 (Incoming(layer, o) = Incoming(last.pre, o) /\ buffer[o] = Unscaled)


\* ------------------------------------ propagation, claim by claim (SpecProp)

\* C21: after GLayerLinear::backPropError(upstream) with upstream.outputs()
\* = inputs(), upstream.error()[i] is the sum over the outputs j of
\* error()[j] * W[i][j] for every input i (the bias row is not used),
\* whatever upstream.error() held before; so the sum of upstream.error()[i] *
\* in[i] equals the sum of error()[j] * (activation()[j] - bias[j]): the map
\* is the transpose of the one of feedForward.
C21_LinearBackPropIsTranspose ==
  (last.op = "backPropError" /\ layer.kind = "linear" /\ Size(node.act) = Inputs(layer)) =>
    /\ \A i \in 0..(Inputs(layer) - 1) :
         node.err[i] = SumOver(0..(Outputs(layer) - 1),
                               [j \in 0..(Outputs(layer) - 1) |->
                                  Error(layer)[j] * layer.m_weights.d[i][j]])
    /\ SumOver(DOMAIN node.err, [i \in DOMAIN node.err |-> node.err[i] * node.act[i]])
         = SumOver(0..(Outputs(layer) - 1),
                   [j \in 0..(Outputs(layer) - 1) |->
                      Error(layer)[j] * (Activation(layer)[j] - GLayerLinear_bias(layer)[j])])

\* A linear layer of two inputs and two outputs has propagated its error
\* into an upstream error buffer that held something else than zeros.
C21_Witness ==
  /\ last.op = "backPropError" /\ last.ok /\ layer.kind = "linear"
  /\ Inputs(layer) = 2 /\ Outputs(layer) = 2
  /\ last.up.err = Vec(2, 1)
  /\ node.err # last.up.err

\* C22: after GLayerAdditionPooling::backPropError both inputs of every
\* pair hold the error of the pair, upstream.error()[2i] =
\* upstream.error()[2i+1] = error()[i], whatever the upstream activation is;
\* after GLayerProductPooling::backPropError each input of a pair holds
\* error()[i] times the activation of the other input of the pair.
C22_PoolingBackProp ==
  /\ (last.op = "backPropError" /\ layer.kind = "additionpooling") =>
       \A i \in 0..(Outputs(layer) - 1) :
         /\ node.err[2 * i] = Error(layer)[i]
         /\ node.err[2 * i + 1] = Error(layer)[i]
  /\ (last.op = "backPropError" /\ layer.kind = "productpooling") =>
       \A i \in 0..(Outputs(layer) - 1) :
         /\ node.err[2 * i] = Error(layer)[i] * node.act[2 * i + 1]
         /\ node.err[2 * i + 1] = Error(layer)[i] * node.act[2 * i]

\* The outputs of a GLayerMaxOut that input j won.
WonBy(l, j) == {i \in 0..(Outputs(l) - 1) : l.m_winners[i] = j}

\* C23: after GLayerMaxOut::feedForward, with or without the draw that
\* overrides the winner, every recorded winner w[i] is an input and
\* activation[i] = (in[w[i]] + bias[w[i]]) * W[w[i]][i]; after a following
\* backPropError upstream.error()[j] is the sum of W[j][i] * error()[i] over
\* the outputs i that input j won, and zero for an input that won none.
C23_MaxOutWinners ==
  /\ (last.op = "feedForward" /\ layer.kind = "maxout") =>
       \A i \in 0..(Outputs(layer) - 1) :
         /\ layer.m_winners[i] < Inputs(layer)
         /\ Activation(layer)[i] =
              (node.act[layer.m_winners[i]] + GLayerMaxOut_bias(layer)[layer.m_winners[i]])
                * layer.m_weights.d[layer.m_winners[i]][i]
  /\ (last.op = "backPropError" /\ layer.kind = "maxout") =>
       \A j \in 0..(Inputs(layer) - 1) :
         node.err[j] = SumOver(WonBy(layer, j),
                               [i \in WonBy(layer, j) |->
                                  layer.m_weights.d[j][i] * Error(layer)[i]])

\* Input 1 won both outputs of a GLayerMaxOut, input 0 none, and the
\* upstream error of input 0, which held something else, is zero.
C23_Witness ==
  /\ last.op = "backPropError" /\ last.ok /\ layer.kind = "maxout"
  /\ Inputs(layer) = 2 /\ Outputs(layer) = 2
  /\ WonBy(layer, 1) = {0, 1}
  /\ last.up.err[0] # 0
  /\ node.err[0] = 0


\* =================================== contrastive divergence (SpecDivergence)

\* GVec::addScaled(scalar, that): this[i] += scalar * that[i].
addScaled(this, scalar, that) ==
  [i \in DOMAIN this |-> this[i] + scalar * At(that, i, 0)]

\* activationReverse(): m_biasReverse[1]
activationReverse(l) == l.m_biasReverse.d[1]

\* biasReverse(): m_biasReverse[0]
biasReverse(l) == l.m_biasReverse.d[0]

\* m_weights.multiply(in, n, true); n += biasReverse()
GLayerRBM_feedBackward(l, in) ==
  [l EXCEPT !.m_biasReverse =
     SetRow(@, 1, addScaled(GMatrix_multiplyTranspose(l.m_weights, in, activationReverse(l), 0),
                            1, biasReverse(l)))]

\* *pH = rand.uniform() < *pH ? 1.0 : 0.0, rand.uniform() being in [0, 1):
\* a value of 1 or more gives 1, a value of 0 or less gives 0.
GLayerRBM_resampleHidden(l) ==
  [l EXCEPT !.m_bias = SetRow(@, 1, [i \in DOMAIN Activation(l) |->
                                       IF Activation(l)[i] >= 1 THEN 1 ELSE 0])]

\* feedBackward(activation()); feedForward(activationReverse())
Reconstruct(l) ==
  LET b == GLayerRBM_feedBackward(l, Activation(l))
  IN GLayerRBM_feedForward(b, activationReverse(b), 0).l

RECURSIVE Resample(_, _)
\* for(size_t i = 1; i < gibbsSamples; i++) { feedBackward; feedForward;
\* resampleHidden }, n the number of turns left.
Resample(l, n) ==
  IF n = 0 THEN l ELSE Resample(GLayerRBM_resampleHidden(Reconstruct(l)), n - 1)

\* m_weights[i].addScaled(activation()[i], v) for every output i.
AddOuter(l, v) ==
  [l EXCEPT !.m_weights.d = [i \in DOMAIN @ |-> addScaled(@[i], Activation(l)[i], v)]]

\* biasReverse().addScaled(rate, v); bias().addScaled(rate, activation())
AddBiases(l, rate, v) ==
  [l EXCEPT !.m_biasReverse = SetRow(@, 0, addScaled(biasReverse(l), rate, v)),
            !.m_bias = SetRow(@, 0, addScaled(GLayerRBM_bias(l), rate, Activation(l)))]

\* GLayerRestrictedBoltzmannMachine::contrastiveDivergence(rand,
\* visibleSample, learningRate, gibbsSamples)
GLayerRBM_contrastiveDivergence(l, visibleSample, learningRate, gibbsSamples) ==
  LET fed == GLayerRBM_feedForward(l, visibleSample, 0).l
      positive == AddBiases(AddOuter(fed, visibleSample), learningRate, visibleSample)
      again == Reconstruct(Resample(positive, gibbsSamples - 1))
      negative == AddOuter(again, activationReverse(again))
  IN AddBiases(negative, 0 - learningRate, activationReverse(negative))

\* Largest learning rate.
MaxRate == 2

\* Most Gibbs samples.
MaxGibbs == 2

DivergenceAt(pc) == [pc |-> pc]

\* The call, the layer before it, the visible sample and the learning rate.
DivergenceObs(op, pre, v, rate) == [op |-> op, pre |-> pre, v |-> v, rate |-> rate]

InitDivergence ==
  /\ layer = NoLayer
  /\ deltas = Vec(0, 0)
  /\ buffer = Vec(0, 0)
  /\ node = NoUpstream
  /\ net = DivergenceAt("none")
  /\ last = DivergenceObs("none", NoLayer, <<>>, 0)

\* new GLayerRestrictedBoltzmannMachine(inputs, outputs); the buffers hold
\* what the allocation held.
DivergenceNew ==
  \E in \in Dims, out \in Dims, g \in GarbageVals :
    /\ net.pc = "none"
    /\ layer' = GLayerRBM(in, out, g).l
    /\ net' = DivergenceAt("new")
    /\ last' = DivergenceObs("construct", NoLayer, <<>>, 0)
    /\ UNCHANGED <<deltas, buffer, node>>

\* layer.resetWeights(rand)
DivergenceResetWeights ==
  \E seed \in 0..(MaxWeight - 1) :
    /\ net.pc = "new"
    /\ layer' = ResetWeights(layer, seed)
    /\ net' = DivergenceAt("reset")
    /\ last' = DivergenceObs("resetWeights", layer, <<>>, 0)
    /\ UNCHANGED <<deltas, buffer, node>>

\* layer.contrastiveDivergence(rand, visibleSample, learningRate,
\* gibbsSamples), the sample having inputs() elements of 0 or 1.
DivergenceContrastiveDivergence ==
  /\ net.pc \in {"new", "reset"}
  /\ \E v \in [0..(Inputs(layer) - 1) -> 0..1], rate \in 1..MaxRate, gibbs \in 1..MaxGibbs :
       /\ layer' = GLayerRBM_contrastiveDivergence(layer, v, rate, gibbs)
       /\ net' = DivergenceAt("trained")
       /\ last' = DivergenceObs("contrastiveDivergence", layer, v, rate)
       /\ UNCHANGED <<deltas, buffer, node>>

\* delete layer
DivergenceDelete ==
  /\ net.pc # "none"
  /\ layer' = NoLayer
  /\ net' = DivergenceAt("none")
  /\ last' = DivergenceObs("delete", layer, <<>>, 0)
  /\ UNCHANGED <<deltas, buffer, node>>

NextDivergence ==
  \/ DivergenceNew
  \/ DivergenceResetWeights
  \/ DivergenceContrastiveDivergence
  \/ DivergenceDelete

SpecDivergence == InitDivergence /\ [][NextDivergence]_vars

\* The hidden activation of the positive phase: what feedForward of the
\* sample gave the layer as it was before the call.
PositiveHidden == Activation(GLayerRBM_feedForward(last.pre, last.v, 0).l)

\* C24: contrastiveDivergence adds to every weight learningRate times
\* (hidden activation * visible sample - reconstructed hidden activation *
\* reconstructed visible), and the same difference, without the other
\* factor, to the two bias vectors; so when the reconstruction equals the
\* sample the weights and the biases are what they were.
C24_ContrastiveDivergence ==
  last.op = "contrastiveDivergence" =>
    /\ \A i \in 0..(Outputs(layer) - 1), j \in 0..(Inputs(layer) - 1) :
         layer.m_weights.d[i][j] =
           last.pre.m_weights.d[i][j]
             + last.rate * (PositiveHidden[i] * last.v[j]
                              - Activation(layer)[i] * activationReverse(layer)[j])
    /\ \A i \in 0..(Outputs(layer) - 1) :
         GLayerRBM_bias(layer)[i] =
           GLayerRBM_bias(last.pre)[i] + last.rate * (PositiveHidden[i] - Activation(layer)[i])
    /\ \A j \in 0..(Inputs(layer) - 1) :
         biasReverse(layer)[j] =
           biasReverse(last.pre)[j] + last.rate * (last.v[j] - activationReverse(layer)[j])
    /\ activationReverse(layer) = last.v =>
         /\ layer.m_weights = last.pre.m_weights
         /\ GLayerRBM_bias(layer) = GLayerRBM_bias(last.pre)
         /\ biasReverse(layer) = biasReverse(last.pre)


\* ========================= convolution with stride and padding (SpecConv)

\* GLayerConvolutional2D::none is (size_t)-1.
none == SIZE_MOD - 1

\* setPadding(px, py = none)
GLayerConvolutional2D_setPadding(l, px, py, g) ==
  updateOutputSize([l EXCEPT !.m_inputImage.px = px,
                             !.m_inputImage.py = IF py = none THEN px ELSE py], g)

\* setStride(sx, sy = none)
GLayerConvolutional2D_setStride(l, sx, sy, g) ==
  updateOutputSize([l EXCEPT !.m_inputImage.sx = sx,
                             !.m_inputImage.sy = IF sy = none THEN sx ELSE sy], g)

\* Largest stride and padding.
MaxStride == 2

MaxPadding == 1

\* Where the run is and how many of setStride, setPadding and addKernel
\* were called.
ConvAt(pc, changes) == [pc |-> pc, changes |-> changes]

ConvObs(op, ok, pre, up) == [op |-> op, ok |-> ok, pre |-> pre, up |-> up]

InitConv ==
  /\ layer = NoLayer
  /\ deltas = Vec(0, 0)
  /\ buffer = Vec(0, 0)
  /\ node = NoUpstream
  /\ net = ConvAt("none", 0)
  /\ last = ConvObs("none", TRUE, NoLayer, NoUpstream)

\* new GLayerConvolutional2D(width, height, channels, kWidth, kHeight,
\* kCount), the kernel not larger than the input; resetWeights(rand).
ConvNew ==
  \E w \in Dims, h \in Dims, c \in Dims, kw \in Dims, kh \in Dims, k \in 1..MaxKernels,
     seed \in {0} :
    /\ net.pc = "none"
    /\ kw <= w /\ kh <= h
    /\ layer' = ResetWeights(GLayerConvolutional2D(w, h, c, kw, kh, k, 0).l, seed)
    /\ net' = ConvAt("new", 0)
    /\ last' = ConvObs("construct", TRUE, NoLayer, NoUpstream)
    /\ UNCHANGED <<deltas, buffer, node>>

\* layer.setStride(sx) and layer.setStride(sx, 1); the buffers the call
\* reallocates are written before they are read.
ConvSetStride ==
  \E sx \in 1..MaxStride, sy \in {1, none} :
    /\ net.pc = "new" /\ net.changes < MaxChanges
    /\ layer' = GLayerConvolutional2D_setStride(layer, sx, sy, 0)
    /\ net' = ConvAt("new", net.changes + 1)
    /\ last' = ConvObs("setStride", TRUE, layer, node)
    /\ UNCHANGED <<deltas, buffer, node>>

\* layer.setPadding(px) and layer.setPadding(px, 0)
ConvSetPadding ==
  \E px \in 0..MaxPadding, py \in {0, none} :
    /\ net.pc = "new" /\ net.changes < MaxChanges
    /\ layer' = GLayerConvolutional2D_setPadding(layer, px, py, 0)
    /\ net' = ConvAt("new", net.changes + 1)
    /\ last' = ConvObs("setPadding", TRUE, layer, node)
    /\ UNCHANGED <<deltas, buffer, node>>

\* layer.addKernel()
ConvAddKernel ==
  \E g \in GarbageVals :
    /\ net.pc = "new" /\ net.changes < MaxChanges
    /\ layer' = addKernel(layer, g)
    /\ net' = ConvAt("new", net.changes + 1)
    /\ last' = ConvObs("addKernel", TRUE, layer, node)
    /\ UNCHANGED <<deltas, buffer, node>>

\* The upstream layer has inputs() units, has been fed, and its error
\* buffer holds what its allocation held; feedForward(upstream.activation()).
ConvFeedForward ==
  \E e \in {MaxGarbage} :
    \E act \in Activations(IF layer = NoLayer THEN 0 ELSE Inputs(layer)) :
      LET r == GLayerConvolutional2D_feedForward(layer, act, 0)
      IN /\ net.pc = "new"
         /\ layer' = r.l
         /\ node' = Upstream(act, Vec(Size(act), e))
         /\ net' = [net EXCEPT !.pc = IF r.ok THEN "fed" ELSE "failed"]
         /\ last' = ConvObs("feedForward", r.ok, layer, node)
         /\ UNCHANGED <<deltas, buffer>>

\* What lies downstream writes error().
ConvSetError ==
  \E e \in 1..MaxVal :
    /\ net.pc = "fed"
    /\ layer' = [layer EXCEPT !.m_activation = SetRow(@, 1, Ramp(Size(Error(layer)), e))]
    /\ net' = [net EXCEPT !.pc = "err"]
    /\ last' = ConvObs("setError", TRUE, layer, node)
    /\ UNCHANGED <<deltas, buffer, node>>

\* backPropError(upstream)
ConvBackPropError ==
  LET r == GLayerConvolutional2D_backPropError(layer, node, 0)
  IN /\ net.pc = "err"
     /\ layer' = r.l
     /\ node' = r.up
     /\ net' = [net EXCEPT !.pc = "back"]
     /\ last' = ConvObs("backPropError", r.ok, layer, node)
     /\ UNCHANGED <<deltas, buffer>>

\* GVec deltas(countWeights()); deltas.fill(0.0);
\* updateDeltas(upstream.activation(), deltas)
ConvUpdateDeltas ==
  /\ net.pc \in {"err", "back"}
  /\ deltas' = GLayerConvolutional2D_updateDeltas(layer, node.act,
                                                  Vec(CountWeights(layer), 0), 0)
  /\ net' = [net EXCEPT !.pc = "updated"]
  /\ last' = ConvObs("updateDeltas", TRUE, layer, node)
  /\ UNCHANGED <<layer, buffer, node>>

\* Both layers and the buffer are deleted.
ConvDelete ==
  /\ net.pc # "none"
  /\ layer' = NoLayer
  /\ node' = NoUpstream
  /\ deltas' = Vec(0, 0)
  /\ net' = ConvAt("none", 0)
  /\ last' = ConvObs("none", TRUE, NoLayer, NoUpstream)
  /\ UNCHANGED buffer

NextConv ==
  \/ ConvNew \/ ConvSetStride \/ ConvSetPadding \/ ConvAddKernel
  \/ ConvFeedForward \/ ConvSetError \/ ConvBackPropError \/ ConvUpdateDeltas
  \/ ConvDelete

SpecConv == InitConv /\ [][NextConv]_vars

\* The output channel of element o of the activation, the channels being
\* interlaced.
ChannelOf(l, o) == o % l.m_actImage.channels

\* C25: for every GLayerConvolutional2D (any kernel size, stride, padding,
\* channel and kernel count) backPropError is the transpose of the linear
\* map of feedForward: the sum over the inputs u of upstream.error()[u] *
\* in[u] equals the sum over the outputs o of error()[o] * (activation()[o]
\* - the bias of the channel of o).
C25_Conv2DBackPropIsTranspose ==
  (last.op = "backPropError" /\ last.ok) =>
    SumOver(DOMAIN node.err, [x \in DOMAIN node.err |-> node.err[x] * node.act[x]])
      = SumOver(DOMAIN Error(layer),
                [o \in DOMAIN Error(layer) |->
                   Error(layer)[o] * (Activation(layer)[o] - layer.m_bias[ChannelOf(layer, o)])])


\* The value of the input the layer was fed at column ix, row iy (counted
\* from the first unpadded cell) and channel c: 0 in the padding.
InputAt(l, in, ix, iy, c) ==
  IF ix >= 0 /\ ix < l.m_width /\ iy >= 0 /\ iy < l.m_height
  THEN in[(iy * l.m_width + ix) * l.m_channels + c]
  ELSE 0

\* The error at output column ox, row oy of kernel k.
ErrorAt(l, ox, oy, k) == Error(l)[(oy * l.m_outputWidth + ox) * l.m_kernels.rows + k]

\* The output positions of one channel.
OutputPositions(l) == (0..(l.m_outputWidth - 1)) \X (0..(l.m_outputHeight - 1))

\* C26: GLayerConvolutional2D::updateDeltas on a buffer of zeros leaves the
\* gradient of one example: for every kernel k the bias slot holds the sum
\* of the error over the output positions of channel k, once, whatever the
\* number of input channels, and the slot of tap (x, y, c) holds the sum
\* over the output positions o of error[o, k] times the input the tap reads
\* at o.
C26_Conv2DUpdateDeltasIsGradient ==
  last.op = "updateDeltas" =>
    LET count == layer.m_kernels.cols
        slot(k, x, y, c) == k * (count + 1) + (y * layer.m_kWidth + x) * layer.m_channels + c
        P == OutputPositions(layer)
    IN \A k \in 0..(layer.m_kernels.rows - 1) :
         /\ deltas[k * (count + 1) + count] = SumOver(P, [o \in P |-> ErrorAt(layer, o[1], o[2], k)])
         /\ \A x \in 0..(layer.m_kWidth - 1), y \in 0..(layer.m_kHeight - 1),
               c \in 0..(layer.m_channels - 1) :
              deltas[slot(k, x, y, c)] =
                SumOver(P, [o \in P |->
                  ErrorAt(layer, o[1], o[2], k)
                    * InputAt(layer, node.act,
                              o[1] * layer.m_inputImage.sx + x - layer.m_inputImage.px,
                              o[2] * layer.m_inputImage.sy + y - layer.m_inputImage.py, c)])


\* C29: after any sequence of addKernel, setStride and setPadding calls on a
\* GLayerConvolutional2D with a concrete input geometry, kernelCount() =
\* outputChannels() = bias().size(), activation().size() = error().size() =
\* outputs(), and countWeights() = kernelCount() * (kernelWidth *
\* kernelHeight * inputChannels + 1).
C29_Conv2DCountsAgree ==
  last.op \in {"addKernel", "setStride", "setPadding"} =>
    /\ kernelCount(layer) = outputChannels(layer)
    /\ outputChannels(layer) = Size(layer.m_bias)
    /\ Size(Activation(layer)) = Outputs(layer)
    /\ Size(Error(layer)) = Outputs(layer)
    /\ CountWeights(layer) =
         kernelCount(layer) * (layer.m_kWidth * layer.m_kHeight * layer.m_channels + 1)


\* ------------------------------------------ the slots of the deltas buffer

\* The slots 0 .. n-1.
Slots(n) == 0..(n - 1)

\* The slots of the deltas buffer updateDeltas goes through: the places the
\* pointer delta, or the window wrapped around it, takes.
UpdateDeltasSlots(l) ==
  CASE l.kind = "linear" -> Slots((GLayerLinear_inputs(l) + 1) * GLayerLinear_outputs(l))
    [] l.kind = "maxout" -> Slots(2 * GLayerMaxOut_outputs(l))
    [] l.kind = "rbm" -> Slots((GLayerRBM_outputs(l) + 1) * GLayerRBM_inputs(l))
    [] l.kind = "conv1d" ->
         IF l.m_outputSamples = 0 THEN {}
         ELSE Slots(l.m_inputChannels * l.m_kernelsPerChannel * (l.m_kernels.cols + 1))
    [] l.kind = "conv2d" -> Slots(l.m_errImage.channels * (l.m_kernels.cols + 1))
    [] OTHER -> {}

\* The slots of the deltas buffer applyDeltas reads.
ApplyDeltasSlots(l) ==
  CASE l.kind = "linear" -> Slots((GLayerLinear_inputs(l) + 1) * GLayerLinear_outputs(l))
    [] l.kind = "maxout" -> Slots(2 * GLayerMaxOut_outputs(l))
    [] l.kind = "rbm" -> Slots(GLayerRBM_outputs(l) * GLayerRBM_inputs(l) + GLayerRBM_outputs(l))
    [] l.kind = "conv1d" ->
         Slots(l.m_inputChannels * l.m_kernelsPerChannel * (l.m_kernels.cols + 1))
    [] l.kind = "conv2d" -> Slots(l.m_kernels.rows * (l.m_kernels.cols + 1))
    [] OTHER -> {}

\* C27: for every parameterized layer kind and every legal shape,
\* updateDeltas and applyDeltas go through slots of [0, countWeights())
\* only: a deltas buffer of countWeights() elements is not accessed past
\* its end.
C27_DeltaSlotsWithinCountWeights ==
  /\ last.op = "updateDeltas" =>
       (Size(deltas) = CountWeights(layer) /\ UpdateDeltasSlots(layer) \subseteq DOMAIN deltas)
  /\ last.op = "applyDeltas" =>
       (Size(deltas) = CountWeights(last.pre) /\ ApplyDeltasSlots(last.pre) \subseteq DOMAIN deltas)


\* ================================================== mini-batches (SpecBatch)

\* A weight of a layer: <<"w", input, output>> or <<"b", unit>>.
\* The weight for which updateDeltas adds its contribution to slot k.
\* GLayerLinear goes through the weights row by row and then the bias;
\* GLayerMaxOut has, per output, a slot for the bias and a slot for the
\* weight of the input that won the output at the last feedForward.
UpdateSlotWeight(l, k) ==
  CASE l.kind = "linear" ->
         IF k < GLayerLinear_inputs(l) * GLayerLinear_outputs(l)
         THEN <<"w", k \div GLayerLinear_outputs(l), k % GLayerLinear_outputs(l)>>
         ELSE <<"b", k - GLayerLinear_inputs(l) * GLayerLinear_outputs(l)>>
    [] l.kind = "maxout" ->
         IF k % 2 = 0
         THEN <<"b", l.m_winners[k \div 2]>>
         ELSE <<"w", l.m_winners[k \div 2], k \div 2>>

\* The weight to which applyDeltas adds slot k.
ApplySlotWeight(l, k) ==
  CASE l.kind = "linear" ->
         IF k < GLayerLinear_inputs(l) * GLayerLinear_outputs(l)
         THEN <<"w", k \div GLayerLinear_outputs(l), k % GLayerLinear_outputs(l)>>
         ELSE <<"b", k - GLayerLinear_inputs(l) * GLayerLinear_outputs(l)>>
    [] l.kind = "maxout" ->
         IF k % 2 = 0
         THEN <<"b", l.m_winners[k \div 2]>>
         ELSE <<"w", l.m_winners[k \div 2], k \div 2>>

\* Most examples of a batch.
MaxExamples == 2

\* Where the run is, the examples that went into the deltas buffer, and for
\* each slot the weights the updateDeltas calls meant by it.
BatchAt(pc, batch, meant) == [pc |-> pc, batch |-> batch, meant |-> meant]

BatchObs(op, pre) == [op |-> op, pre |-> pre]

InitBatch ==
  /\ layer = NoLayer
  /\ deltas = Vec(0, 0)
  /\ buffer = Vec(0, 0)
  /\ node = NoUpstream
  /\ net = BatchAt("none", 0, <<>>)
  /\ last = BatchObs("none", NoLayer)

\* new GLayerLinear(in, out) or new GLayerMaxOut(in, out);
\* resetWeights(rand); GVec deltas(countWeights()); deltas.fill(0.0).
BatchNew ==
  \E seed \in 0..1 :
    \E l \in {t \in TrainLayers(0) : t.kind \in {"linear", "maxout"}} :
      /\ net.pc = "none"
      /\ layer' = ResetWeights(l, seed)
      /\ deltas' = Vec(CountWeights(l), 0)
      /\ net' = BatchAt("ready", 0, [k \in Slots(CountWeights(l)) |-> {}])
      /\ last' = BatchObs("construct", NoLayer)
      /\ UNCHANGED <<buffer, node>>

\* One example: feedForward(in), the error is written, backPropError.
BatchFeedForward ==
  \E in \in Activations(IF layer = NoLayer THEN 0 ELSE Inputs(layer)), e \in 1..MaxVal :
    \E rnd \in Rnds(layer) :
      LET fed == FeedForward(layer, in, rnd, 0).l
          err == [fed EXCEPT !.m_activation = SetRow(@, 1, Ramp(Outputs(fed), e))]
          r == BackPropError(err, Upstream(in, Vec(Size(in), 0)), 0)
      IN /\ net.pc = "ready" /\ net.batch < MaxExamples
         /\ layer' = r.l
         /\ node' = r.up
         /\ buffer' = in
         /\ net' = [net EXCEPT !.pc = "fed"]
         /\ last' = BatchObs("feedForward", layer)
         /\ UNCHANGED deltas

\* updateDeltas(upstream.activation(), deltas)
BatchUpdateDeltas ==
  /\ net.pc = "fed"
  /\ deltas' = UpdateDeltas(layer, buffer, deltas, 0)
  /\ net' = BatchAt("ready", net.batch + 1,
                    [k \in DOMAIN net.meant |->
                       IF k \in UpdateDeltasSlots(layer)
                       THEN net.meant[k] \cup {UpdateSlotWeight(layer, k)}
                       ELSE net.meant[k]])
  /\ last' = BatchObs("updateDeltas", layer)
  /\ UNCHANGED <<layer, buffer, node>>

\* applyDeltas(learningRate, deltas) after the examples of the batch.
BatchApplyDeltas ==
  \E lr \in 1..MaxVal :
    /\ net.pc = "ready" /\ net.batch >= 1
    /\ layer' = ApplyDeltas(layer, lr, deltas, 0)
    /\ net' = [net EXCEPT !.pc = "applied"]
    /\ last' = BatchObs("applyDeltas", layer)
    /\ UNCHANGED <<deltas, buffer, node>>

\* The layers and the buffer are deleted.
BatchDelete ==
  /\ net.pc # "none"
  /\ layer' = NoLayer
  /\ deltas' = Vec(0, 0)
  /\ buffer' = Vec(0, 0)
  /\ node' = NoUpstream
  /\ net' = BatchAt("none", 0, <<>>)
  /\ last' = BatchObs("delete", layer)

NextBatch ==
  \/ BatchNew \/ BatchFeedForward \/ BatchUpdateDeltas \/ BatchApplyDeltas \/ BatchDelete

SpecBatch == InitBatch /\ [][NextBatch]_vars

\* C28: in a mini-batch, applyDeltas adds every slot k of the deltas buffer
\* to the weight for which every updateDeltas call of the batch added its
\* contribution to slot k: the weight a slot stands for does not depend on
\* the example that was fed forward last.
C28_BatchSlotsKeepTheirWeight ==
  last.op = "applyDeltas" =>
    \A k \in DOMAIN net.meant :
      k \in ApplyDeltasSlots(last.pre) =>
        net.meant[k] \subseteq {ApplySlotWeight(last.pre, k)}


\* ============================================= Image::index (SpecImage)
\* An image is a view on a buffer of width * height * channels elements; its
\* members are public and are set by the layer before each use.

\* Largest offset dx.
MaxOffset == 1

\* The images: every size, layout, offset, padding, stride and direction.
Images ==
  {[Image(w, h, c) EXCEPT !.interlaced = il, !.dx = dx, !.dy = dy, !.dz = dz,
                          !.px = px, !.py = py, !.sx = sx, !.sy = sy,
                          !.invertStride = inv, !.flip = fl] :
     w \in Dims, h \in Dims, c \in Dims, il \in BOOLEAN,
     dx \in 0..MaxOffset, dy \in {0}, dz \in 0..1,
     px \in 0..MaxPadding, py \in 0..MaxPadding,
     sx \in 1..MaxStride, sy \in 1..MaxStride,
     inv \in BOOLEAN, fl \in BOOLEAN}

\* The call, its arguments, what it returned and whether it read outside
\* the buffer.
ImageObs(op, x, y, z, out, outside) ==
  [op |-> op, x |-> x, y |-> y, z |-> z, out |-> out, outside |-> outside]

\* Image(&data, width, height, channels), its members set; the buffer holds
\* 1, 2, 3, ...
InitImage ==
  /\ layer \in Images
  /\ buffer = Ramp(layer.width * layer.height * layer.channels, 1)
  /\ deltas = Vec(0, 0)
  /\ node = NoUpstream
  /\ net = Unused
  /\ last = ImageObs("none", 0, 0, 0, 0, FALSE)

\* image.index(x, y, z)
ImageIndex ==
  \E x \in 0..MaxSize, y \in 0..1, z \in 0..1 :
    /\ last' = ImageObs("index", x, y, z, Image_index(layer, x, y, z), FALSE)
    /\ UNCHANGED <<layer, deltas, buffer, node, net>>

\* image.read(x, y, z): what lies past the end of the buffer is whatever the
\* memory holds.
ImageRead ==
  \E x \in 0..MaxSize, y \in 0..1, z \in 0..1, u \in {0, MaxGarbage} :
    /\ last' = ImageObs("read", x, y, z, Image_read(layer, buffer, x, y, z, u),
                        /\ Image_index(layer, x, y, z) # npos
                        /\ Image_index(layer, x, y, z) \notin DOMAIN buffer)
    /\ UNCHANGED <<layer, deltas, buffer, node, net>>

NextImage == ImageIndex \/ ImageRead

SpecImage == InitImage /\ [][NextImage]_vars

\* With an inverted stride a position that is not a multiple of the stride
\* stands for no cell.
Between(im, x, y) ==
  im.invertStride /\ ((x + im.dx) % im.sx > 0 \/ (y + im.dy) % im.sy > 0)

\* The column and the row (x, y) stands for after the offset, the stride,
\* the padding and the flip, as signed numbers.
LogicalX(im, x) ==
  LET a == IF im.invertStride THEN (x + im.dx) \div im.sx - im.px
           ELSE x + im.dx * im.sx - im.px
  IN IF im.flip THEN im.width - a - 1 ELSE a

LogicalY(im, y) ==
  LET a == IF im.invertStride THEN (y + im.dy) \div im.sy - im.py
           ELSE y + im.dy * im.sy - im.py
  IN IF im.flip THEN im.height - a - 1 ELSE a

\* (x, y) stands for no cell of the image.
Padded(im, x, y) ==
  \/ Between(im, x, y)
  \/ LogicalX(im, x) < 0 \/ LogicalX(im, x) >= im.width
  \/ LogicalY(im, y) < 0 \/ LogicalY(im, y) >= im.height

\* C30: Image::index, computed in size_t, returns npos for every (x, y)
\* that stands for a position outside [0, width) x [0, height), a position
\* left of or above the image included, and otherwise, when z + dz <
\* channels, an index below width * height * channels; so read gives 0 for
\* the padded positions and for no other, and does not read outside the
\* buffer.
C30_ImageIndexInBounds ==
  /\ last.op = "index" =>
       /\ Padded(layer, last.x, last.y) => last.out = npos
       /\ (~Padded(layer, last.x, last.y) /\ last.z + layer.dz < layer.channels) =>
            last.out < layer.width * layer.height * layer.channels
  /\ (last.op = "read" /\ last.z + layer.dz < layer.channels) =>
       /\ last.out = 0 <=> Padded(layer, last.x, last.y)
       /\ ~last.outside

\* A flipped image with padding was asked for a position left of its first
\* column, which wraps around in size_t.
C30_Witness ==
  /\ last.op = "index" /\ last.out = npos
  /\ layer.flip /\ layer.px = 1 /\ ~layer.invertStride
  /\ LogicalX(layer, last.x) >= layer.width
  /\ last.x + layer.dx * layer.sx - layer.px < 0

====
